---- MODULE Spec2Model ----
(***************************************************************************)
(* Outage ingestion and reconciliation pipeline of MDU_Looking_Glass.      *)
(*                                                                         *)
(* The store is the SQLite database written by                             *)
(*   process_property_outages_db.py  (batch pipeline, append / rebuild)    *)
(*   track_ongoing_outages.py        (live-feed poller)                    *)
(* Time is counted in slots; SlotsPerHour slots make an hour and           *)
(* HoursPerDay hours a day.  A timestamp column holds TEXT: the model      *)
(* keeps a timestamp text as <<day, separator, slot of day, suffix>> so    *)
(* that SQLite's text comparison (left to right, character by character)   *)
(* is the lexicographic order of the tuple.                                *)
(***************************************************************************)
EXTENDS Integers, Sequences, FiniteSets, Bags, TLC

\* ------------------------------------------------------------------------
\* Bounds
\* ------------------------------------------------------------------------
SlotsPerHour == 2
HoursPerDay == 1
MaxNow == 2
RetainDays == 1
LookbackSlots == 2
MaxBatch == 2
MaxRuns == 3
MaxLoggedRuns == 2
MaxTrackerRuns == 2
MaxEventAge == 0
MaxFeedOutages == 1
MaxFeedChanges == 2

NetIds == {1, 2}
Pollers == {"p1", "p2"}
PropOrder == <<"A", "B">>
PropNames == {PropOrder[i] : i \in 1..Len(PropOrder)}
EndDeltas == {1}
Reasons == {"isp"}

SlotsPerDay == SlotsPerHour * HoursPerDay

\* ------------------------------------------------------------------------
\* Timestamp texts
\* ------------------------------------------------------------------------
NULL == <<>>

\* str(pd.Timestamp) of a timezone-aware CSV value: "YYYY-MM-DD HH:MM:SS+00:00"
PandasStr(t) == <<t \div SlotsPerDay, " ", t % SlotsPerDay, "+00:00">>

\* the live feed's ISO string: "YYYY-MM-DDTHH:MM:SSZ"
ApiFormat(t) == <<t \div SlotsPerDay, "T", t % SlotsPerDay, "Z">>

\* str.replace('Z', '+00:00')
ReplaceZ(s) == IF s = NULL THEN NULL
               ELSE <<s[1], s[2], s[3], IF s[4] = "Z" THEN "+00:00" ELSE s[4]>>

\* datetime.isoformat() of a naive local time with microseconds
IsoFormat(t) == <<t \div SlotsPerDay, "T", t % SlotsPerDay, ".ffffff">>

\* sqlite3's default adapter for datetime parameters: isoformat(" ")
AdaptDatetime(t) == <<t \div SlotsPerDay, " ", t % SlotsPerDay, ".ffffff">>

\* ASCII order of the characters that can follow the date part and the
\* seconds part of a timestamp text
SepOrd(c) == IF c = " " THEN 0 ELSE 1
SufOrd(c) == CASE c = "" -> 0 [] c = "+00:00" -> 1 [] c = ".ffffff" -> 2 [] OTHER -> 3

\* SQLite TEXT comparison a < b
TextLT(a, b) ==
    \/ a[1] < b[1]
    \/ a[1] = b[1] /\ SepOrd(a[2]) < SepOrd(b[2])
    \/ a[1] = b[1] /\ a[2] = b[2] /\ a[3] < b[3]
    \/ a[1] = b[1] /\ a[2] = b[2] /\ a[3] = b[3] /\ SufOrd(a[4]) < SufOrd(b[4])

TextGE(a, b) == ~TextLT(a, b)

\* the instant a timestamp text denotes
Instant(s) == s[1] * SlotsPerDay + s[3]

\* Series.dt.floor('h')
FloorHour(t) == (t \div SlotsPerHour) * SlotsPerHour

\* ------------------------------------------------------------------------
\* The store
\* ------------------------------------------------------------------------
VARIABLES db, now, feed, pollers, last, runs, feed_changes

vars == <<db, now, feed, pollers, last, runs, feed_changes>>

\* Identifier columns declared AUTOINCREMENT take the next label of
\* sqlite_sequence; labels are never reused, also after DELETE FROM.
EmptyDb ==
    [properties |-> {}, networks |-> {}, outages |-> EmptyBag,
     network_hourly_outages |-> {}, property_hourly_outages |-> {},
     ongoing_outages |-> {},
     xpon_shelves |-> {}, router_7x50s |-> {},
     property_xpon_shelves |-> {}, property_7x50s |-> {},
     sqlite_sequence |-> [properties |-> 0, ongoing_outages |-> 0,
                          xpon_shelves |-> 0, router_7x50s |-> 0]]

Max(a, b) == IF a >= b THEN a ELSE b

\* ------------------------------------------------------------------------
\* Inputs of a batch run
\* ------------------------------------------------------------------------
\* 'Equip Name' column: the parts of the code between '-', <<>> when absent
EquipNames == {<<>>, <<"ONT", "S1", "01", "10", "13", "25">>}
\* '7x50' column: "" when absent
RouterNames == {"", "R1"}

\* a discovery row; 'Eero Network ID' is the key of the snapshot
DiscoveryRows == [mdu : PropNames, net : NetIds, equip : EquipNames, r7x50 : RouterNames]

\* an outage event after pd.to_datetime: start and end are instants
OutageEvent(n, s, e) == [network_id |-> n, start_time |-> s, end_time |-> e]

\* ------------------------------------------------------------------------
\* process_property_outages_db.py : parsing helpers
\* ------------------------------------------------------------------------
\* shelf name of an ONT code, "" for None
parse_ont_name(ont_name) ==
    IF ont_name = <<>> THEN ""
    ELSE IF Len(ont_name) >= 6 /\ ont_name[1] = "ONT" THEN ont_name[2]
    ELSE ""

\* ------------------------------------------------------------------------
\* process_property_outages_db.py : retention and wipe
\* ------------------------------------------------------------------------
\* the rows of bag B that satisfy keep, with their multiplicities
BagFilter(B, keep(_)) ==
    LET S == {r \in DOMAIN B : keep(r)} IN [r \in S |-> B[r]]

clear_old_data_no_window(d, t) ==
    LET cutoff_date == IsoFormat(t) IN
    [d EXCEPT
       !.outages = BagFilter(d.outages, LAMBDA r : ~TextLT(r.wan_down_start, cutoff_date)),
       !.network_hourly_outages = {r \in @ : ~TextLT(r.outage_hour, cutoff_date)},
       !.property_hourly_outages = {r \in @ : ~TextLT(r.outage_hour, cutoff_date)},
       !.properties = {p \in @ :
           ~(/\ p.property_id \notin {n.property_id : n \in d.networks}
             /\ TextLT(p.last_updated, cutoff_date))}]

clear_old_data(d, t) ==
    LET cutoff_date == IsoFormat(t - RetainDays * SlotsPerDay) IN
    [d EXCEPT
       !.outages = BagFilter(d.outages, LAMBDA r : ~TextLT(r.wan_down_start, cutoff_date)),
       !.network_hourly_outages = {r \in @ : ~TextLT(r.outage_hour, cutoff_date)},
       !.property_hourly_outages = {r \in @ : ~TextLT(r.outage_hour, cutoff_date)},
       !.properties = {p \in @ :
           ~(/\ p.property_id \notin {n.property_id : n \in d.networks}
             /\ TextLT(p.last_updated, cutoff_date))}]

clear_existing_data_keeps_catalog(d) ==
    [d EXCEPT
       !.outages = EmptyBag,
       !.network_hourly_outages = {},
       !.property_hourly_outages = {},
       !.property_xpon_shelves = {},
       !.property_7x50s = {},
       !.networks = {},
       !.properties = {}]

clear_existing_data_keeps_outages(d) ==
    [d EXCEPT
       !.network_hourly_outages = {},
       !.property_hourly_outages = {},
       !.property_xpon_shelves = {},
       !.property_7x50s = {},
       !.networks = {},
       !.properties = {},
       !.xpon_shelves = {},
       !.router_7x50s = {}]

\* a wipe that leaves the networks and properties tables
clear_existing_data_keeps_networks(d) ==
    [d EXCEPT
       !.outages = EmptyBag,
       !.network_hourly_outages = {},
       !.property_hourly_outages = {},
       !.property_xpon_shelves = {},
       !.property_7x50s = {},
       !.xpon_shelves = {},
       !.router_7x50s = {}]

clear_existing_data(d) ==
    [d EXCEPT
       !.outages = EmptyBag,
       !.network_hourly_outages = {},
       !.property_hourly_outages = {},
       !.property_xpon_shelves = {},
       !.property_7x50s = {},
       !.networks = {},
       !.properties = {},
       !.xpon_shelves = {},
       !.router_7x50s = {}]

\* ------------------------------------------------------------------------
\* process_property_outages_db.py : the per-property block of a discovery run
\* ------------------------------------------------------------------------
\* INSERT INTO properties ... ON CONFLICT(property_name) DO UPDATE
upsert_property(d, property_name, n_networks, n_outages, t) ==
    IF \E p \in d.properties : p.property_name = property_name
    THEN [d EXCEPT !.properties =
            {IF p.property_name = property_name
             THEN [p EXCEPT !.total_networks = n_networks,
                            !.total_outages = @ + n_outages,
                            !.last_updated = AdaptDatetime(t)]
             ELSE p : p \in @}]
    ELSE [d EXCEPT
            !.properties = @ \cup
                {[property_id |-> d.sqlite_sequence.properties + 1,
                  property_name |-> property_name,
                  total_networks |-> n_networks,
                  total_outages |-> n_outages,
                  last_updated |-> AdaptDatetime(t)]},
            !.sqlite_sequence.properties = @ + 1]

\* an upsert of networks whose update replaces total_outages
upsert_network_replacing_total(d, network_id, property_id, n_outages) ==
    [d EXCEPT !.networks =
        {n \in @ : n.network_id # network_id} \cup
        {[network_id |-> network_id,
          property_id |-> IF \E n \in d.networks : n.network_id = network_id
                          THEN (CHOOSE n \in d.networks : n.network_id = network_id).property_id
                          ELSE property_id,
          total_outages |-> n_outages]}]

\* INSERT INTO networks ... ON CONFLICT(network_id) DO UPDATE: the update
\* adds to total_outages and leaves property_id as it is
upsert_network(d, network_id, property_id, n_outages) ==
    IF \E n \in d.networks : n.network_id = network_id
    THEN [d EXCEPT !.networks =
            {IF n.network_id = network_id
             THEN [n EXCEPT !.total_outages = @ + n_outages]
             ELSE n : n \in @}]
    ELSE [d EXCEPT !.networks = @ \cup
            {[network_id |-> network_id, property_id |-> property_id,
              total_outages |-> n_outages]}]

RECURSIVE insert_networks(_, _, _, _)
insert_networks(d, rows, property_id, property_outages) ==
    IF rows = {} THEN d
    ELSE LET network_row == CHOOSE r \in rows : TRUE
             network_outages_for_id ==
                 {o \in property_outages : o.network_id = network_row.net}
         IN insert_networks(
                upsert_network(d, network_row.net, property_id,
                               Cardinality(network_outages_for_id)),
                rows \ {network_row}, property_id, property_outages)

\* INSERT OR IGNORE INTO xpon_shelves / router_7x50s (name)
insert_or_ignore_equipment(d, table, name) ==
    IF \E e \in d[table] : e.name = name THEN d
    ELSE [d EXCEPT
            ![table] = @ \cup {[id |-> d.sqlite_sequence[table] + 1, name |-> name,
                                total_properties |-> 0, total_networks |-> 0]},
            !.sqlite_sequence[table] = @ + 1]

\* INSERT OR REPLACE INTO property_xpon_shelves / property_7x50s,
\* PRIMARY KEY (property_id, shelf_id / router_id)
insert_or_replace_link(links, property_id, equipment_id, network_count) ==
    {l \in links : ~(l.property_id = property_id /\ l.equipment_id = equipment_id)}
    \cup {[property_id |-> property_id, equipment_id |-> equipment_id,
           network_count |-> network_count]}

\* one catalog table and its link table: names maps each name found for the
\* property to the number of discovery rows carrying it
RECURSIVE store_equipment(_, _, _, _, _, _)
store_equipment(d, table, link_table, property_id, names, count) ==
    IF names = {} THEN d
    ELSE LET name == CHOOSE x \in names : TRUE
             d1 == insert_or_ignore_equipment(d, table, name)
             equipment_id == (CHOOSE e \in d1[table] : e.name = name).id
             d2 == [d1 EXCEPT ![link_table] =
                       insert_or_replace_link(@, property_id, equipment_id, count[name])]
         IN store_equipment(d2, table, link_table, property_id, names \ {name}, count)

process_equipment(d, property_networks, property_id) ==
    LET equipment_info == {r \in property_networks : r.equip # <<>>}
        property_shelves == {parse_ont_name(r.equip) : r \in equipment_info} \ {""}
        shelf_count == [name \in property_shelves |->
            Cardinality({r \in equipment_info : parse_ont_name(r.equip) = name})]
        property_routers == {r.r7x50 : r \in equipment_info} \ {""}
        router_count == [name \in property_routers |->
            Cardinality({r \in equipment_info : r.r7x50 = name})]
        d1 == store_equipment(d, "xpon_shelves", "property_xpon_shelves",
                              property_id, property_shelves, shelf_count)
    IN store_equipment(d1, "router_7x50s", "property_7x50s",
                       property_id, property_routers, router_count)

\* INSERT INTO outages: the timestamps are stored as str(pd.Timestamp);
\* outage_id is read by no statement of the pipeline, so the table is the
\* bag of its rows
OutageRow(o) ==
    [network_id |-> o.network_id,
     wan_down_start |-> PandasStr(o.start_time),
     wan_down_end |-> PandasStr(o.end_time),
     duration |-> o.end_time - o.start_time,
     reason |-> "NULL"]

insert_outages(d, events) ==
    [d EXCEPT !.outages = @ (+) SetToBag({OutageRow(o) : o \in events})]

\* a plain INSERT INTO property_hourly_outages, without the conflict clause
insert_property_hourly(rows, property_id, outage_hour, cnt) ==
    rows \cup {[property_id |-> property_id, outage_hour |-> outage_hour,
              total_outage_count |-> cnt]}

\* INSERT INTO property_hourly_outages ... ON CONFLICT(property_id, outage_hour)
upsert_property_hourly(rows, property_id, outage_hour, cnt) ==
    IF \E r \in rows : r.property_id = property_id /\ r.outage_hour = outage_hour
    THEN {IF r.property_id = property_id /\ r.outage_hour = outage_hour
          THEN [r EXCEPT !.total_outage_count = @ + cnt] ELSE r : r \in rows}
    ELSE rows \cup {[property_id |-> property_id, outage_hour |-> outage_hour,
                     total_outage_count |-> cnt]}

\* INSERT INTO network_hourly_outages ... ON CONFLICT(network_id, outage_hour)
upsert_network_hourly_overwrite(rows, network_id, outage_hour, cnt) ==
    IF \E r \in rows : r.network_id = network_id /\ r.outage_hour = outage_hour
    THEN {IF r.network_id = network_id /\ r.outage_hour = outage_hour
          THEN [r EXCEPT !.outage_count = cnt] ELSE r : r \in rows}
    ELSE rows \cup {[network_id |-> network_id, outage_hour |-> outage_hour,
                     outage_count |-> cnt]}

upsert_network_hourly(rows, network_id, outage_hour, cnt) ==
    IF \E r \in rows : r.network_id = network_id /\ r.outage_hour = outage_hour
    THEN {IF r.network_id = network_id /\ r.outage_hour = outage_hour
          THEN [r EXCEPT !.outage_count = @ + cnt] ELSE r : r \in rows}
    ELSE rows \cup {[network_id |-> network_id, outage_hour |-> outage_hour,
                     outage_count |-> cnt]}

\* groupby('outage_hour').size(), upserted row by row
RECURSIVE property_rollups(_, _, _, _)
property_rollups(rows, property_id, events, hours) ==
    IF hours = {} THEN rows
    ELSE LET h == CHOOSE x \in hours : TRUE
             cnt == Cardinality({o \in events : FloorHour(o.start_time) = h})
         IN property_rollups(
                upsert_property_hourly(rows, property_id, PandasStr(h), cnt),
                property_id, events, hours \ {h})

\* groupby(['network_id', 'outage_hour']).size(), upserted row by row
RECURSIVE network_rollups(_, _, _)
network_rollups(rows, events, groups) ==
    IF groups = {} THEN rows
    ELSE LET g == CHOOSE x \in groups : TRUE
             cnt == Cardinality({o \in events :
                        o.network_id = g[1] /\ FloorHour(o.start_time) = g[2]})
         IN network_rollups(
                upsert_network_hourly(rows, g[1], PandasStr(g[2]), cnt),
                events, groups \ {g})

process_outage_data(d, property_id, property_outages) ==
    IF property_outages = {} THEN d
    ELSE LET d1 == insert_outages(d, property_outages) IN
         [d1 EXCEPT
            !.property_hourly_outages =
                property_rollups(@, property_id, property_outages,
                    {FloorHour(o.start_time) : o \in property_outages}),
            !.network_hourly_outages =
                network_rollups(@, property_outages,
                    {<<o.network_id, FloorHour(o.start_time)>> : o \in property_outages})]

\* the body of `for property_name in sorted(properties)`, up to its commit
process_property(d, property_name, eero_details, network_outages, t) ==
    LET property_networks == {r \in eero_details : r.mdu = property_name}
        network_ids == {r.net : r \in property_networks}
        property_outages == {o \in network_outages : o.network_id \in network_ids}
        d1 == upsert_property(d, property_name, Cardinality(network_ids),
                              Cardinality(property_outages), t)
        property_id ==
            (CHOOSE p \in d1.properties : p.property_name = property_name).property_id
        d2 == insert_networks(d1, property_networks, property_id, property_outages)
        d3 == process_equipment(d2, property_networks, property_id)
    IN process_outage_data(d3, property_id, property_outages)

\* the loop over sorted(properties): i is the position in PropOrder
RECURSIVE process_properties(_, _, _, _, _)
process_properties(d, i, eero_details, network_outages, t) ==
    IF i > Len(PropOrder) THEN d
    ELSE process_properties(
            IF \E r \in eero_details : r.mdu = PropOrder[i]
            THEN process_property(d, PropOrder[i], eero_details, network_outages, t)
            ELSE d,
            i + 1, eero_details, network_outages, t)

\* ------------------------------------------------------------------------
\* process_property_outages_db.py : reconciliation, statistics, removal
\* ------------------------------------------------------------------------
\* The SELECT of reconcile_ongoing_outages: the join compares the stored
\* texts of wan_down_start
reconciled_rows(d) ==
    {oo \in d.ongoing_outages :
        /\ oo.wan_down_end = NULL
        /\ \E o \in DOMAIN d.outages :
              /\ o.network_id = oo.network_id
              /\ o.wan_down_start = oo.wan_down_start
              /\ o.wan_down_end # NULL}

\* The connection of process_outages_to_db sets no row_factory, so the rows
\* are tuples and row['ongoing_outage_id'] raises TypeError on the first
\* matching row, before any DELETE is executed.
reconcile_ongoing_outages(d) ==
    IF reconciled_rows(d) = {}
    THEN [raised |-> FALSE, db |-> d, reconciled_count |-> 0]
    ELSE [raised |-> TRUE, db |-> d, reconciled_count |-> 0]

\* UPDATE xpon_shelves / router_7x50s SET total_properties, total_networks;
\* SUM over no row is NULL, written -1
RECURSIVE SumNetworkCount(_)
SumNetworkCount(links) ==
    IF links = {} THEN 0
    ELSE LET l == CHOOSE x \in links : TRUE
         IN l.network_count + SumNetworkCount(links \ {l})

update_equipment_statistics(d) ==
    LET stats(e, links) ==
          LET mine == {l \in links : l.equipment_id = e.id} IN
          [e EXCEPT !.total_properties = Cardinality({l.property_id : l \in mine}),
                    !.total_networks = IF mine = {} THEN -1 ELSE SumNetworkCount(mine)]
    IN [d EXCEPT
          !.xpon_shelves = {stats(e, d.property_xpon_shelves) : e \in @},
          !.router_7x50s = {stats(e, d.property_7x50s) : e \in @}]

\* rows of the raw outages table that join a network of the property
CountOutagesOfProperty(d, property_id) ==
    LET nets == {n.network_id : n \in {m \in d.networks : m.property_id = property_id}}
    IN BagCardinality(BagFilter(d.outages, LAMBDA r : r.network_id \in nets))

\* a removal pass that forgets `DELETE FROM outages WHERE network_id IN (...)`
remove_networks_keeping_outages(d, eero_details) ==
    LET discovery_network_ids == {r.net : r \in eero_details}
        db_network_ids == {n.network_id : n \in d.networks}
        networks_to_remove == db_network_ids \ discovery_network_ids
        d1 == [d EXCEPT
                 !.network_hourly_outages =
                     {r \in @ : r.network_id \notin networks_to_remove},
                 !.networks = {n \in @ : n.network_id \notin networks_to_remove}]
        d2 == [d1 EXCEPT !.properties =
                 {[p EXCEPT
                     !.total_networks =
                         Cardinality({n \in d1.networks : n.property_id = p.property_id}),
                     !.total_outages = CountOutagesOfProperty(d1, p.property_id)]
                  : p \in @}]
    IN IF networks_to_remove = {} THEN d
       ELSE [d2 EXCEPT !.properties =
               {p \in @ : p.property_id \in {n.property_id : n \in d2.networks}}]

\* networks_to_remove and the statements guarded by `if networks_to_remove`
remove_networks(d, eero_details) ==
    LET discovery_network_ids == {r.net : r \in eero_details}
        db_network_ids == {n.network_id : n \in d.networks}
        networks_to_remove == db_network_ids \ discovery_network_ids
        d1 == [d EXCEPT
                 !.network_hourly_outages =
                     {r \in @ : r.network_id \notin networks_to_remove},
                 !.outages = BagFilter(@, LAMBDA r : r.network_id \notin networks_to_remove),
                 !.networks = {n \in @ : n.network_id \notin networks_to_remove}]
        d2 == [d1 EXCEPT !.properties =
                 {[p EXCEPT
                     !.total_networks =
                         Cardinality({n \in d1.networks : n.property_id = p.property_id}),
                     !.total_outages = CountOutagesOfProperty(d1, p.property_id)]
                  : p \in @}]
    IN IF networks_to_remove = {} THEN d
       ELSE [d2 EXCEPT !.properties =
               {p \in @ : p.property_id \in {n.property_id : n \in d2.networks}}]

\* the branch `if eero_details is not None`
process_with_discovery(d, eero_details, network_outages, t) ==
    LET d1 == process_properties(d, 1, eero_details, network_outages, t)
        rec == reconcile_ongoing_outages(d1)
        d2 == update_equipment_statistics(rec.db)
        d3 == remove_networks(d2, eero_details)
        discovered == {r.net : r \in eero_details}
    IN IF rec.raised
       THEN [db |-> d1, raised |-> TRUE, total |-> 0, skipped |-> <<>>]
       ELSE [db |-> d3, raised |-> FALSE, skipped |-> <<>>,
             total |-> Cardinality({o \in network_outages : o.network_id \in discovered})]

\* ------------------------------------------------------------------------
\* process_property_outages_db.py : the branch without discovery data
\* ------------------------------------------------------------------------
\* UPDATE networks SET total_outages = total_outages + ? for each network
add_network_outage_counts(d, valid_outages) ==
    [d EXCEPT !.networks =
        {[n EXCEPT !.total_outages =
              @ + Cardinality({o \in valid_outages : o.network_id = n.network_id})]
         : n \in @}]

\* the loop `for network_id in valid_outages['network_id'].unique()` that
\* upserts the property and the network rollups of one network at a time
RECURSIVE rollups_by_network(_, _, _)
rollups_by_network(d, valid_outages, network_ids) ==
    IF network_ids = {} THEN d
    ELSE LET network_id == CHOOSE x \in network_ids : TRUE
             result == {n \in d.networks : n.network_id = network_id}
             property_id == (CHOOSE n \in result : TRUE).property_id
             subset == {o \in valid_outages : o.network_id = network_id}
             hours == {FloorHour(o.start_time) : o \in subset}
             d1 == IF result = {} THEN d
                   ELSE [d EXCEPT
                           !.property_hourly_outages =
                               property_rollups(@, property_id, subset, hours),
                           !.network_hourly_outages =
                               network_rollups(@, subset,
                                   {<<network_id, h>> : h \in hours})]
         IN rollups_by_network(d1, valid_outages, network_ids \ {network_id})

\* UPDATE properties SET total_outages = (SELECT COUNT(*) ...), last_updated = ?
update_property_totals(d, t) ==
    [d EXCEPT !.properties =
        {[p EXCEPT !.total_outages = CountOutagesOfProperty(d, p.property_id),
                   !.last_updated = AdaptDatetime(t)]
         : p \in @}]

process_outages_only_unfiltered(d, network_outages, t) ==
    LET existing_networks == {n.network_id : n \in d.networks}
        valid_outages == network_outages
        d1 == insert_outages(d, valid_outages)
        d2 == add_network_outage_counts(d1, valid_outages)
        d3 == rollups_by_network(d2, valid_outages,
                                 {o.network_id : o \in valid_outages})
        d4 == update_property_totals(d3, t)
        skipped_count == Cardinality(network_outages) - Cardinality(valid_outages)
    IN IF existing_networks = {}
       THEN [db |-> d, raised |-> FALSE, total |-> 0, skipped |-> <<>>]
       ELSE IF valid_outages = {}
       THEN [db |-> d, raised |-> FALSE, total |-> 0, skipped |-> <<skipped_count>>]
       ELSE [db |-> d4, raised |-> FALSE, total |-> Cardinality(valid_outages),
             skipped |-> <<skipped_count>>]

\* the branch `else` of `if eero_details is not None`; skipped is
\* <<skipped_count>> where the code computes and reports it, <<>> where the
\* run returns before it does
process_outages_only(d, network_outages, t) ==
    LET existing_networks == {n.network_id : n \in d.networks}
        valid_outages == {o \in network_outages : o.network_id \in existing_networks}
        d1 == insert_outages(d, valid_outages)
        d2 == add_network_outage_counts(d1, valid_outages)
        d3 == rollups_by_network(d2, valid_outages,
                                 {o.network_id : o \in valid_outages})
        d4 == update_property_totals(d3, t)
        skipped_count == Cardinality(network_outages) - Cardinality(valid_outages)
    IN IF existing_networks = {}
       THEN [db |-> d, raised |-> FALSE, total |-> 0, skipped |-> <<>>]
       ELSE IF valid_outages = {}
       THEN [db |-> d, raised |-> FALSE, total |-> 0, skipped |-> <<skipped_count>>]
       ELSE [db |-> d4, raised |-> FALSE, total |-> Cardinality(valid_outages),
             skipped |-> <<skipped_count>>]

\* ------------------------------------------------------------------------
\* process_property_outages_db.py : process_outages_to_db
\* ------------------------------------------------------------------------
\* mode is "append" or "rebuild"; has_discovery tells whether eero_details
\* is not None; t is datetime.now().  The result carries the store as the
\* run leaves it, whether the run ended in an uncaught exception, and the
\* returned total_outages_processed.
process_outages_to_db(d, mode, has_discovery, eero_details, network_outages, t) ==
    LET cleared == IF mode = "rebuild" THEN clear_existing_data(d)
                   ELSE clear_old_data(d, t)
    IN IF has_discovery
       THEN process_with_discovery(cleared, eero_details, network_outages, t)
       ELSE process_outages_only(cleared, network_outages, t)

\* ------------------------------------------------------------------------
\* track_ongoing_outages.py
\* ------------------------------------------------------------------------
\* An outage of the live feed, as the API returns it: start and end are the
\* API's strings, end is NULL while the outage is open.  The outages the
\* API lists for one network have distinct start times.
ApiOutage(s, e, reason) == [start |-> s, end |-> e, reason |-> reason]

\* the rows of the UNION, without the address columns: a network is listed
\* once for its most recent raw outage at or after the cutoff text and once
\* for its most recent ongoing_outages row at or after it; UNION drops a row
\* only when both halves give the same last_outage_start text
MaxText(texts) == CHOOSE x \in texts : \A y \in texts : TextGE(x, y)

get_networks_with_recent_outages(d, t) ==
    LET cutoff_time == IsoFormat(t - LookbackSlots)
        joined == {n \in d.networks :
                      \E p \in d.properties : p.property_id = n.property_id}
        recent(rows, network_id) ==
            {r.wan_down_start : r \in
                {x \in rows : x.network_id = network_id
                                /\ TextGE(x.wan_down_start, cutoff_time)}}
        listed(rows) ==
            {[network_id |-> n.network_id,
              last_outage_start |-> MaxText(recent(rows, n.network_id))] :
                n \in {m \in joined : recent(rows, m.network_id) # {}}}
    IN listed(DOMAIN d.outages) \cup listed(d.ongoing_outages)

\* the SELECT of store_ongoing_outage: the ids of the matching rows
\* (fetchone() takes one of them, none when the set is empty)
select_existing(d, network_id, start_time) ==
    {oo.ongoing_outage_id : oo \in
        {r \in d.ongoing_outages :
            r.network_id = network_id /\ r.wan_down_start = ReplaceZ(start_time)}}

\* INSERT INTO ongoing_outages under UNIQUE(network_id, wan_down_start):
\* a second row with the key raises sqlite3.IntegrityError
insert_ongoing_unchecked(d, row) ==
    [raised |-> FALSE,
     db |-> [d EXCEPT
               !.ongoing_outages = @ \cup
                   {[row EXCEPT !.ongoing_outage_id = d.sqlite_sequence.ongoing_outages + 1]},
               !.sqlite_sequence.ongoing_outages = @ + 1]]

insert_ongoing(d, row) ==
    IF \E r \in d.ongoing_outages :
          r.network_id = row.network_id /\ r.wan_down_start = row.wan_down_start
    THEN [raised |-> TRUE, db |-> d]
    ELSE [raised |-> FALSE,
          db |-> [d EXCEPT
                    !.ongoing_outages = @ \cup
                        {[row EXCEPT
                            !.ongoing_outage_id = d.sqlite_sequence.ongoing_outages + 1]},
                    !.sqlite_sequence.ongoing_outages = @ + 1]]

write_ongoing_resets_first_detected(d, existing, network_id, start_time, end_time, reason, t) ==
    IF existing # {}
    THEN [raised |-> FALSE,
          db |-> [d EXCEPT !.ongoing_outages =
                    {IF r.ongoing_outage_id \in existing
                     THEN [r EXCEPT !.wan_down_end = ReplaceZ(end_time),
                                    !.reason = reason,
                                    !.first_detected = IsoFormat(t),
                                    !.last_checked = IsoFormat(t)]
                     ELSE r : r \in @}]]
    ELSE insert_ongoing(d,
            [ongoing_outage_id |-> 0,
             network_id |-> network_id,
             wan_down_start |-> ReplaceZ(start_time),
             wan_down_end |-> ReplaceZ(end_time),
             reason |-> reason,
             first_detected |-> IsoFormat(t),
             last_checked |-> IsoFormat(t)])

\* the `if existing: UPDATE ... else: INSERT ...` of store_ongoing_outage and
\* its commit; existing is the result of the SELECT
write_ongoing(d, existing, network_id, start_time, end_time, reason, t) ==
    IF existing # {}
    THEN [raised |-> FALSE,
          db |-> [d EXCEPT !.ongoing_outages =
                    {IF r.ongoing_outage_id \in existing
                     THEN [r EXCEPT !.wan_down_end = ReplaceZ(end_time),
                                    !.reason = reason,
                                    !.last_checked = IsoFormat(t)]
                     ELSE r : r \in @}]]
    ELSE insert_ongoing(d,
            [ongoing_outage_id |-> 0,
             network_id |-> network_id,
             wan_down_start |-> ReplaceZ(start_time),
             wan_down_end |-> ReplaceZ(end_time),
             reason |-> reason,
             first_detected |-> IsoFormat(t),
             last_checked |-> IsoFormat(t)])

store_ongoing_outage(d, network_id, start_time, end_time, reason, t) ==
    write_ongoing(d, select_existing(d, network_id, start_time),
                  network_id, start_time, end_time, reason, t)

remove_resolved_outage(d, network_id, start_time) ==
    [d EXCEPT !.ongoing_outages =
        {r \in @ : ~(r.network_id = network_id /\ r.wan_down_start = ReplaceZ(start_time))}]

RECURSIVE check_api_outages_stores_ended(_, _, _, _)
check_api_outages_stores_ended(d, network_id, api_outages, t) ==
    IF api_outages = {} THEN [raised |-> FALSE, db |-> d]
    ELSE LET outage == CHOOSE o \in api_outages : TRUE
             stored == store_ongoing_outage(d, network_id, outage.start,
                                            outage.end, outage.reason, t)
         IN IF stored.raised THEN stored
            ELSE check_api_outages_stores_ended(stored.db, network_id,
                                                api_outages \ {outage}, t)

\* the loop `for outage in api_outages` for one network
RECURSIVE check_api_outages(_, _, _, _)
check_api_outages(d, network_id, api_outages, t) ==
    IF api_outages = {} THEN [raised |-> FALSE, db |-> d]
    ELSE LET outage == CHOOSE o \in api_outages : TRUE
             stored == IF outage.end = NULL
                       THEN store_ongoing_outage(d, network_id, outage.start,
                                                 NULL, outage.reason, t)
                       ELSE [raised |-> FALSE,
                             db |-> remove_resolved_outage(d, network_id, outage.start)]
         IN IF stored.raised THEN stored
            ELSE check_api_outages(stored.db, network_id, api_outages \ {outage}, t)

\* the loop `for i, network in enumerate(networks, 1)`; api maps each network
\* to the outages of its response, failed holds the rows of the list whose
\* query returned None (timeout, exception, status other than 200) or a body
\* without data.outages: both branches only add 1 to errors
RECURSIVE check_networks(_, _, _, _, _)
check_networks(d, networks, api, failed, t) ==
    IF networks = {} THEN [raised |-> FALSE, db |-> d]
    ELSE LET network == CHOOSE n \in networks : TRUE
             network_id == network.network_id
             checked == IF network \in failed
                        THEN [raised |-> FALSE, db |-> d]
                        ELSE check_api_outages(d, network_id, api[network_id], t)
         IN IF checked.raised THEN checked
            ELSE check_networks(checked.db, networks \ {network}, api, failed, t)

track_ongoing_outages(d, api, failed, t) ==
    LET networks == get_networks_with_recent_outages(d, t)
        run == check_networks(d, networks, api, failed, t)
    IN [raised |-> run.raised, db |-> run.db,
        networks_checked |-> Cardinality(networks),
        errors |-> Cardinality(networks \cap failed)]

\* ------------------------------------------------------------------------
\* Input sets and bounds of the runs
\* ------------------------------------------------------------------------
EquipPlain == {[equip |-> <<>>, r7x50 |-> ""]}
EquipAll == [equip : EquipNames, r7x50 : RouterNames]
EquipPaired == {e \in EquipAll : (e.equip = <<>>) <=> (e.r7x50 = "")}

\* the discovery snapshots over the properties P whose rows carry equipment
\* columns from E: every network id is listed at most once
Snapshots(P, E) ==
    {S \in SUBSET {r \in DiscoveryRows :
                      r.mdu \in P /\ [equip |-> r.equip, r7x50 |-> r.r7x50] \in E} :
        \A r1, r2 \in S : r1.net = r2.net => r1 = r2}

\* the outage events a file processed at instant t may hold
Events(t) ==
    {OutageEvent(n, s, s + dl) :
        n \in NetIds, s \in Max(0, t - MaxEventAge)..t, dl \in EndDeltas}

Batches(t, size) == {B \in SUBSET Events(t) : Cardinality(B) <= size}

\* row counts of every table
RowCounts(d) ==
    [properties |-> Cardinality(d.properties),
     networks |-> Cardinality(d.networks),
     outages |-> BagCardinality(d.outages),
     network_hourly_outages |-> Cardinality(d.network_hourly_outages),
     property_hourly_outages |-> Cardinality(d.property_hourly_outages),
     ongoing_outages |-> Cardinality(d.ongoing_outages),
     xpon_shelves |-> Cardinality(d.xpon_shelves),
     router_7x50s |-> Cardinality(d.router_7x50s),
     property_xpon_shelves |-> Cardinality(d.property_xpon_shelves),
     property_7x50s |-> Cardinality(d.property_7x50s)]

\* ------------------------------------------------------------------------
\* State machine
\* ------------------------------------------------------------------------
Idle == [pc |-> "idle"]

Init ==
    /\ db = EmptyDb
    /\ now = 0
    /\ feed = [n \in NetIds |-> {}]
    /\ pollers = [p \in Pollers |-> Idle]
    /\ last = [op |-> "init"]
    /\ runs = 0
    /\ feed_changes = 0

\* the clock advances
Tick ==
    /\ now < MaxNow
    /\ now' = now + 1
    /\ UNCHANGED <<db, feed, pollers, last, runs, feed_changes>>

\* the live feed: network n goes down now
FeedDown(n) ==
    /\ Cardinality(feed[n]) < MaxFeedOutages
    /\ \A o \in feed[n] : o.end # NULL /\ o.start # ApiFormat(now)
    /\ \E reason \in Reasons :
          feed' = [feed EXCEPT ![n] = @ \cup {ApiOutage(ApiFormat(now), NULL, reason)}]
    /\ last' = [op |-> "feed"]
    /\ feed_changes < MaxFeedChanges
    /\ feed_changes' = feed_changes + 1
    /\ UNCHANGED <<db, now, pollers, runs>>

\* the live feed: the open outage of network n ends now
FeedUp(n) ==
    /\ \E o \in feed[n] :
          /\ o.end = NULL
          /\ feed' = [feed EXCEPT ![n] = (@ \ {o}) \cup
                         {ApiOutage(o.start, ApiFormat(now), o.reason)}]
    /\ last' = [op |-> "feed"]
    /\ feed_changes < MaxFeedChanges
    /\ feed_changes' = feed_changes + 1
    /\ UNCHANGED <<db, now, pollers, runs>>

\* the live feed: an ended outage leaves the API's query window
FeedExpire(n) ==
    /\ \E o \in feed[n] :
          /\ o.end # NULL
          /\ feed' = [feed EXCEPT ![n] = @ \ {o}]
    /\ last' = [op |-> "feed"]
    /\ UNCHANGED <<db, now, pollers, runs, feed_changes>>

\* the open OngoingOutage rows of d, as <<network, instant of the start>>
OpenKeys(d) ==
    {<<r.network_id, Instant(r.wan_down_start)>> :
        r \in {x \in d.ongoing_outages : x.wan_down_end = NULL}}

\* one run of process_outages_to_db, from start to exit.  `last` records the
\* run for the properties below; with logged it also keeps the input files,
\* the row counts the run started from, whether the run repeats the
\* previous one, and the skipped count the run reported.
BatchRun(mode, has_discovery, eero_details, network_outages, logged) ==
    LET run == process_outages_to_db(db, mode, has_discovery, eero_details,
                                     network_outages, now)
        inserted == {OutageRow(o) : o \in network_outages} \cap DOMAIN run.db.outages
        input == [eero_details |-> eero_details, network_outages |-> network_outages]
    IN /\ runs < MaxRuns
       /\ runs' = runs + 1
       /\ db' = run.db
       /\ last' = [op |-> "batch", mode |-> mode, has_discovery |-> has_discovery,
                   raised |-> run.raised,
                   due |-> {<<r.network_id, Instant(r.wan_down_start)>> : r \in inserted}
                              \cap OpenKeys(db),
                   log |-> IF logged
                           THEN <<input, RowCounts(db),
                                  /\ last.op = "batch"
                                  /\ last.mode = mode
                                  /\ last.has_discovery = has_discovery
                                  /\ ~last.raised /\ ~run.raised
                                  /\ last.log # <<>>
                                  /\ last.log[1] = input,
                                  run.skipped>>
                           ELSE <<>>]
       /\ UNCHANGED <<now, feed, pollers, feed_changes>>

\* one run of track_ongoing_outages, from start to exit
PollRun(failed) ==
    LET run == track_ongoing_outages(db, feed, failed, now) IN
    /\ runs < MaxRuns
    /\ runs' = runs + 1
    /\ db' = run.db
    /\ last' = [op |-> "poll", failed |-> failed, raised |-> run.raised,
                before |-> db.ongoing_outages,
                networks_checked |-> run.networks_checked,
                errors |-> run.errors,
                repeat |-> last.op = "poll" /\ last.failed = failed]
    /\ UNCHANGED <<now, feed, pollers, feed_changes>>

FeedStep ==
    \/ \E n \in NetIds : FeedDown(n)
    \/ \E n \in NetIds : FeedUp(n)
    \/ \E n \in NetIds : FeedExpire(n)

\* The batch pipeline alone, run by the scheduler one run at a time
Next ==
    \/ Tick
    \/ \E mode \in {"append", "rebuild"}, S \in Snapshots(PropNames, EquipPlain),
          B \in Batches(now, MaxBatch) :
          BatchRun(mode, TRUE, S, B, FALSE)
    \/ \E mode \in {"append", "rebuild"}, B \in Batches(now, MaxBatch) :
          BatchRun(mode, FALSE, {}, B, FALSE)

Spec == Init /\ [][Next]_vars

\* The poller and the batch pipeline, run by the scheduler one run at a time
NextPoll ==
    \/ Tick
    \/ FeedStep
    \/ \E mode \in {"append", "rebuild"}, S \in Snapshots({PropOrder[1]}, EquipPlain),
          B \in Batches(now, 1) :
          BatchRun(mode, TRUE, S, B, FALSE)
    \/ \E mode \in {"append", "rebuild"}, B \in Batches(now, 1) :
          BatchRun(mode, FALSE, {}, B, FALSE)
    \/ \E failed \in SUBSET get_networks_with_recent_outages(db, now) : PollRun(failed)

SpecPoll == Init /\ [][NextPoll]_vars

\* The batch pipeline with equipment columns in the discovery file; `last`
\* keeps the input files of each run
NextRebuild ==
    \/ Tick
    \/ /\ runs < MaxLoggedRuns
       /\ \E mode \in {"append", "rebuild"}, S \in Snapshots(PropNames, EquipPaired),
             B \in Batches(now, 1) :
             BatchRun(mode, TRUE, S, B, TRUE)
    \/ /\ runs < MaxLoggedRuns
       /\ \E mode \in {"append", "rebuild"}, B \in Batches(now, 1) :
             BatchRun(mode, FALSE, {}, B, TRUE)

SpecRebuild == Init /\ [][NextRebuild]_vars

\* ------------------------------------------------------------------------
\* Concurrent pollers: every statement that reads or writes the store is a
\* step of its own.  Each call of store_ongoing_outage and of
\* remove_resolved_outage opens its own connection, so another process can
\* write between the SELECT and the INSERT or UPDATE of one call.
\* ------------------------------------------------------------------------
\* where a poller goes after an outage of the response is done
NextPosition(networks, network_id, api_outages) ==
    IF api_outages # {}
    THEN [pc |-> "outage", networks |-> networks, network_id |-> network_id,
          api_outages |-> api_outages]
    ELSE IF networks # {} THEN [pc |-> "query", networks |-> networks]
    ELSE Idle

\* track_ongoing_outages starts: get_networks_with_recent_outages
PollStart(p) ==
    /\ pollers[p].pc = "idle"
    /\ runs < MaxRuns
    /\ runs' = runs + 1
    /\ LET networks == get_networks_with_recent_outages(db, now) IN
       pollers' = [pollers EXCEPT ![p] =
                      IF networks = {} THEN Idle
                      ELSE [pc |-> "query", networks |-> networks]]
    /\ last' = [op |-> "poll_step", raised |-> FALSE]
    /\ UNCHANGED <<db, now, feed, feed_changes>>

\* query_eero_outage_api for the next network; ok is FALSE when it returns None
PollQuery(p, ok) ==
    /\ pollers[p].pc = "query"
    /\ LET network == CHOOSE n \in pollers[p].networks : TRUE
           network_id == network.network_id
           api_outages == IF ok THEN feed[network_id] ELSE {}
       IN pollers' = [pollers EXCEPT ![p] =
                         NextPosition(pollers[p].networks \ {network},
                                      network_id, api_outages)]
    /\ last' = [op |-> "poll_step", raised |-> FALSE]
    /\ UNCHANGED <<db, now, feed, runs, feed_changes>>

\* the next outage of the response: the SELECT of store_ongoing_outage for an
\* open outage, remove_resolved_outage for an ended one
PollSelect(p) ==
    /\ pollers[p].pc = "outage"
    /\ LET st == pollers[p]
           outage == CHOOSE o \in st.api_outages : TRUE
           rest == st.api_outages \ {outage}
       IN IF outage.end = NULL
          THEN /\ pollers' = [pollers EXCEPT ![p] =
                     [pc |-> "write", networks |-> st.networks,
                      network_id |-> st.network_id, api_outages |-> rest,
                      outage |-> outage,
                      existing |-> select_existing(db, st.network_id, outage.start),
                      t |-> now]]
               /\ db' = db
          ELSE /\ pollers' = [pollers EXCEPT ![p] =
                     NextPosition(st.networks, st.network_id, rest)]
               /\ db' = remove_resolved_outage(db, st.network_id, outage.start)
    /\ last' = [op |-> "poll_step", raised |-> FALSE]
    /\ UNCHANGED <<now, feed, runs, feed_changes>>

\* the UPDATE or INSERT of store_ongoing_outage and its commit; an
\* IntegrityError is caught nowhere and ends the poller's run
PollWrite(p) ==
    /\ pollers[p].pc = "write"
    /\ LET st == pollers[p]
           res == write_ongoing(db, st.existing, st.network_id, st.outage.start,
                                NULL, st.outage.reason, st.t)
       IN /\ db' = res.db
          /\ pollers' = [pollers EXCEPT ![p] =
                IF res.raised THEN Idle
                ELSE NextPosition(st.networks, st.network_id, st.api_outages)]
          /\ last' = [op |-> "poll_step", raised |-> res.raised]
    /\ UNCHANGED <<now, feed, runs, feed_changes>>

NextInterleaved ==
    \/ Tick
    \/ FeedStep
    \/ \E mode \in {"append", "rebuild"}, S \in Snapshots({PropOrder[1]}, EquipPlain),
          B \in Batches(now, 1) :
          BatchRun(mode, TRUE, S, B, FALSE)
    \/ \E mode \in {"append", "rebuild"}, B \in Batches(now, 1) :
          BatchRun(mode, FALSE, {}, B, FALSE)
    \/ \E p \in Pollers : PollStart(p)
    \/ \E p \in Pollers, ok \in BOOLEAN : PollQuery(p, ok)
    \/ \E p \in Pollers : PollSelect(p)
    \/ \E p \in Pollers : PollWrite(p)

SpecInterleaved == Init /\ [][NextInterleaved]_vars

\* ------------------------------------------------------------------------
\* Properties
\* ------------------------------------------------------------------------
\* the last step was a batch run that ran to its end
BatchCompleted == last.op = "batch" /\ ~last.raised

\* a step that is an append-mode batch run
AppendStep == runs' = runs + 1 /\ last'.op = "batch" /\ last'.mode = "append"

\* the raw Outage rows of a network whose start floors to the hour text
RawCount(d, network_id, outage_hour) ==
    BagCardinality(BagFilter(d.outages, LAMBDA r :
        /\ r.network_id = network_id
        /\ PandasStr(FloorHour(Instant(r.wan_down_start))) = outage_hour))

\* the count stored for (property, hour), 0 when there is no row
PropertyHourCount(d, property_id, outage_hour) ==
    LET rows == {r \in d.property_hourly_outages :
                    r.property_id = property_id /\ r.outage_hour = outage_hour}
    IN IF rows = {} THEN 0 ELSE (CHOOSE r \in rows : TRUE).total_outage_count

\* the count stored for (network, hour), 0 when there is no row
NetworkHourCount(d, network_id, outage_hour) ==
    LET rows == {r \in d.network_hourly_outages :
                    r.network_id = network_id /\ r.outage_hour = outage_hour}
    IN IF rows = {} THEN 0 ELSE (CHOOSE r \in rows : TRUE).outage_count

RECURSIVE SumNetworkHourCounts(_, _, _)
SumNetworkHourCounts(d, network_ids, outage_hour) ==
    IF network_ids = {} THEN 0
    ELSE LET n == CHOOSE x \in network_ids : TRUE
         IN NetworkHourCount(d, n, outage_hour)
              + SumNetworkHourCounts(d, network_ids \ {n}, outage_hour)

RollupHours(d) ==
    {r.outage_hour : r \in d.network_hourly_outages}
        \cup {r.outage_hour : r \in d.property_hourly_outages}

\* C6: at the end of every completed batch run, for every property and hour,
\* property_hourly_outages.total_outage_count equals the sum of
\* network_hourly_outages.outage_count over the networks of the property,
\* also after a run that removed networks.
C6_PropertyRollupIsSumOfNetworkRollups ==
    BatchCompleted =>
        \A p \in db.properties, h \in RollupHours(db) :
            PropertyHourCount(db, p.property_id, h) =
                SumNetworkHourCounts(db,
                    {n.network_id : n \in {m \in db.networks :
                                              m.property_id = p.property_id}}, h)

\* C7: at the end of every completed append run, the outage_count of every
\* network_hourly_outages row equals the number of raw Outage rows of that
\* network whose start floors to that hour, and every raw Outage row is
\* counted by such a row.
C7_NetworkRollupCountsRawRows ==
    (BatchCompleted /\ last.mode = "append") =>
        /\ \A r \in db.network_hourly_outages :
              r.outage_count = RawCount(db, r.network_id, r.outage_hour)
        /\ \A o \in DOMAIN db.outages :
              \E r \in db.network_hourly_outages :
                 /\ r.network_id = o.network_id
                 /\ r.outage_hour = PandasStr(FloorHour(Instant(o.wan_down_start)))

\* an append run has ended with a rollup row that counts raw rows of more
\* than one run
C7_Witness ==
    /\ BatchCompleted /\ last.mode = "append" /\ runs >= 2
    /\ \E r \in db.network_hourly_outages :
          r.outage_count >= 2 /\ r.outage_count = RawCount(db, r.network_id, r.outage_hour)

\* C8 as stated: across an append run the count of a (network, hour) rollup
\* row never decreases and an existing rollup row never disappears.
C8_RollupRowsNeverDisappear ==
    [][AppendStep =>
          \A r \in db.network_hourly_outages :
             \E r2 \in db'.network_hourly_outages :
                /\ r2.network_id = r.network_id
                /\ r2.outage_hour = r.outage_hour
                /\ r2.outage_count >= r.outage_count]_vars

\* C8 amended: across an append run a (network, hour) rollup row keeps or
\* raises its count, unless the run's retention step deletes it (its hour
\* text compares below the cutoff) or the run removes its network.
C8_RollupRowsMonotoneUnlessPurged ==
    [][AppendStep =>
          \A r \in db.network_hourly_outages :
             \/ TextLT(r.outage_hour, IsoFormat(now - RetainDays * SlotsPerDay))
             \/ r.network_id \notin {n.network_id : n \in db'.networks}
             \/ \E r2 \in db'.network_hourly_outages :
                   /\ r2.network_id = r.network_id
                   /\ r2.outage_hour = r.outage_hour
                   /\ r2.outage_count >= r.outage_count]_vars

\* an append run found a rollup row in the store, kept its network and left
\* the row with a count of two
C8_Witness ==
    /\ last.op = "batch" /\ last.mode = "append" /\ runs = 2
    /\ \E r \in db.network_hourly_outages :
          /\ r.outage_count = 2
          /\ r.network_id \in {n.network_id : n \in db.networks}
          /\ ~TextLT(r.outage_hour, IsoFormat(now - RetainDays * SlotsPerDay))

\* C9: a rebuild run that follows a rebuild run on the same input files
\* leaves every table with the row count the first one left.
C9_RebuildTwiceSameRowCounts ==
    (BatchCompleted /\ last.mode = "rebuild" /\ last.log # <<>> /\ last.log[3]) =>
        RowCounts(db) = last.log[2]

\* a rebuild was repeated on the same discovery snapshot and outage file,
\* both with rows that reach the store
C9_Witness ==
    /\ BatchCompleted /\ last.mode = "rebuild" /\ last.log # <<>> /\ last.log[3]
    /\ last.log[2].outages >= 1
    /\ last.log[2].networks >= 1
    /\ last.log[2].xpon_shelves >= 1
    /\ RowCounts(db) = last.log[2]

\* a step that is a rebuild run whose input files `last` keeps
RebuildStep ==
    /\ runs' = runs + 1
    /\ last'.op = "batch" /\ last'.mode = "rebuild" /\ ~last'.raised
    /\ last'.log # <<>>

\* the store with empty tables; the wipe keeps the AUTOINCREMENT counters
\* and the ongoing_outages table
Wiped(d) ==
    [EmptyDb EXCEPT !.sqlite_sequence = d.sqlite_sequence,
                    !.ongoing_outages = d.ongoing_outages]

\* C10: after a rebuild run the store holds nothing of earlier runs: it is
\* the store the same input files produce from empty tables; Network rows
\* are networks of the current snapshot, raw Outage rows and rollups come
\* from the current outage file, and the counters count its events only.
C10_RebuildKeepsNothingOfEarlierRuns ==
    [][RebuildStep =>
         LET eero_details == last'.log[1].eero_details
             network_outages == last'.log[1].network_outages
             listed == {r.net : r \in eero_details}
             kept == {o \in network_outages : o.network_id \in listed}
         IN /\ db' = process_outages_to_db(Wiped(db), "rebuild", last'.has_discovery,
                                           eero_details, network_outages, now).db
            /\ {n.network_id : n \in db'.networks} \subseteq listed
            /\ {p.property_name : p \in db'.properties}
                  \subseteq {r.mdu : r \in eero_details}
            /\ db'.outages = SetToBag({OutageRow(o) : o \in kept})
            /\ \A n \in db'.networks :
                  n.total_outages =
                      Cardinality({o \in kept : o.network_id = n.network_id})
            /\ \A r \in db'.network_hourly_outages :
                  r.outage_count = RawCount(db', r.network_id, r.outage_hour)
            /\ \A r \in db'.property_hourly_outages :
                  r.total_outage_count <= Cardinality(kept)
            /\ {x.name : x \in db'.xpon_shelves}
                  \subseteq {parse_ont_name(r.equip) : r \in eero_details}
            /\ {x.name : x \in db'.router_7x50s}
                  \subseteq {r.r7x50 : r \in eero_details}
            /\ \A l \in db'.property_xpon_shelves \cup db'.property_7x50s :
                  l.property_id \in {p.property_id : p \in db'.properties}]_vars

\* a rebuild has run on a store that held more networks, raw outages and
\* shelves than its own input brings
C10_Witness ==
    /\ BatchCompleted /\ last.mode = "rebuild" /\ last.log # <<>> /\ runs = 2
    /\ last.log[2].networks > Cardinality(db.networks)
    /\ last.log[2].outages > BagCardinality(db.outages)
    /\ last.log[2].xpon_shelves > Cardinality(db.xpon_shelves)
    /\ Cardinality(db.networks) >= 1

\* the keys <<network_id, instant of wan_down_start>> of the OngoingOutage rows
OngoingKeys(d) ==
    {<<r.network_id, Instant(r.wan_down_start)>> : r \in d.ongoing_outages}

\* C1: after every completed batch run, with or without discovery data, that
\* inserted a historical outage (n, s, e) with an end while an open
\* OngoingOutage row for (n, s) was stored, no OngoingOutage row for (n, s)
\* is left.
C1_ReconciledAfterBatchRun ==
    BatchCompleted => \A k \in last.due : k \notin OngoingKeys(db)

\* an OngoingOutage row without its last_checked column
StripChecked(r) ==
    [ongoing_outage_id |-> r.ongoing_outage_id, network_id |-> r.network_id,
     wan_down_start |-> r.wan_down_start, wan_down_end |-> r.wan_down_end,
     reason |-> r.reason, first_detected |-> r.first_detected]

\* C3: a poll that follows a poll with the feed and the store untouched in
\* between leaves the rows the first poll left: it creates no row, deletes
\* none, and changes no column other than last_checked.
C3_SecondPollChangesOnlyLastChecked ==
    (last.op = "poll" /\ last.repeat) =>
        /\ {StripChecked(r) : r \in db.ongoing_outages}
              = {StripChecked(r) : r \in last.before}
        /\ Cardinality(db.ongoing_outages) = Cardinality(last.before)

\* a second poll against the unchanged feed found a row of the first poll
\* and rewrote its last_checked
C3_Witness ==
    /\ last.op = "poll" /\ last.repeat /\ ~last.raised
    /\ \E r \in db.ongoing_outages :
          \E b \in last.before :
             /\ StripChecked(b) = StripChecked(r)
             /\ b.last_checked # r.last_checked

\* C4: an OngoingOutage row for (n, s) is created only by a poll, only when
\* the feed reports for n an outage that starts at s and has no end, and
\* only when n is in the networks table.
C4_RowsCreatedOnlyForOpenFeedOutages ==
    [][\A r \in db'.ongoing_outages :
          (r.ongoing_outage_id \notin {b.ongoing_outage_id : b \in db.ongoing_outages}) =>
              /\ last'.op = "poll"
              /\ r.network_id \in {n.network_id : n \in db.networks}
              /\ \E o \in feed[r.network_id] :
                    /\ o.end = NULL
                    /\ ReplaceZ(o.start) = r.wan_down_start
              /\ r.wan_down_end = NULL]_vars

\* a poll has created a row
C4_Witness ==
    /\ last.op = "poll" /\ ~last.raised
    /\ \E r \in db.ongoing_outages :
          /\ r.ongoing_outage_id \notin {b.ongoing_outage_id : b \in last.before}
          /\ r.network_id \in {n.network_id : n \in db.networks}

\* C5: after any sequence of completed runs every raw Outage row and every
\* OngoingOutage row references a row of the networks table.
C5_RowsReferenceExistingNetworks ==
    (last.op \in {"batch", "poll"} /\ ~last.raised) =>
        /\ \A o \in DOMAIN db.outages :
              o.network_id \in {n.network_id : n \in db.networks}
        /\ \A r \in db.ongoing_outages :
              r.network_id \in {n.network_id : n \in db.networks}

\* C2: in every state the pollers and the batch runs can reach, whatever
\* the interleaving of the statements of store_ongoing_outage and
\* remove_resolved_outage with batch runs, at most one OngoingOutage row has
\* a given (network_id, wan_down_start).
C2_OneRowPerNetworkAndStart ==
    \A r1, r2 \in db.ongoing_outages :
        (r1.network_id = r2.network_id /\ r1.wan_down_start = r2.wan_down_start)
            => r1 = r2

\* a poller's INSERT was refused because another poller had inserted the key
\* after this poller's SELECT found no row
C2_Witness ==
    /\ last.op = "poll_step" /\ last.raised
    /\ db.ongoing_outages # {}

\* the instant the retention cutoff of a run at t stands for
CutoffInstant(t) == t - RetainDays * SlotsPerDay

\* C11: the retention step of an append run deletes only raw Outage rows and
\* rollup rows that are chronologically older than the cutoff: it deletes no
\* Network row and no Property row, and every raw Outage row and rollup row
\* at or after the cutoff is left as it was.
C11_RetentionDeletesOnlyOlderRows ==
    [][AppendStep =>
          LET kept == clear_old_data(db, now) IN
          /\ kept.networks = db.networks
          /\ kept.properties = db.properties
          /\ \A r \in DOMAIN db.outages :
                Instant(r.wan_down_start) >= CutoffInstant(now) =>
                    /\ r \in DOMAIN kept.outages
                    /\ kept.outages[r] = db.outages[r]
          /\ \A r \in db.network_hourly_outages :
                Instant(r.outage_hour) >= CutoffInstant(now) =>
                    r \in kept.network_hourly_outages
          /\ \A r \in db.property_hourly_outages :
                Instant(r.outage_hour) >= CutoffInstant(now) =>
                    r \in kept.property_hourly_outages]_vars

\* a step that is a batch run without discovery data whose input `last` keeps
OutagesOnlyStep ==
    /\ runs' = runs + 1
    /\ last'.op = "batch" /\ ~last'.has_discovery /\ last'.log # <<>>

\* the network ids of the networks table when the run looks them up: the
\* wipe of a rebuild has emptied the table by then
KnownNetworks(d, mode) ==
    IF mode = "rebuild" THEN {} ELSE {n.network_id : n \in d.networks}

RECURSIVE SumPropertyHourCounts(_)
SumPropertyHourCounts(rows) ==
    IF rows = {} THEN 0
    ELSE LET r == CHOOSE x \in rows : TRUE
         IN r.total_outage_count + SumPropertyHourCounts(rows \ {r})

\* what C12 says of the store: a run without discovery data inserts no
\* outage of an unknown network into outages or a rollup table and creates
\* no Network and no Property
UnknownOutagesLeaveNoTrace(d, d2, mode, network_outages) ==
    LET known == KnownNetworks(d, mode)
        valid == {o \in network_outages : o.network_id \in known}
        start == IF mode = "rebuild" THEN clear_existing_data(d) ELSE clear_old_data(d, now)
    IN /\ {n.network_id : n \in d2.networks} = known
       /\ {p.property_name : p \in d2.properties}
             \subseteq {p.property_name : p \in d.properties}
       /\ \A r \in DOMAIN d2.outages : r.network_id \in known
       /\ \A r \in d2.network_hourly_outages : r.network_id \in known
       /\ BagCardinality(d2.outages)
             = BagCardinality(start.outages) + Cardinality(valid)
       /\ SumPropertyHourCounts(d2.property_hourly_outages)
             = SumPropertyHourCounts(start.property_hourly_outages) + Cardinality(valid)

\* C12 as stated: in a run without a discovery snapshot an outage of a network
\* that is not in the networks table is inserted nowhere, creates no Network
\* and no Property, and is counted in the skipped total, which is the number
\* of input rows minus the rows for known networks.
C12_UnknownOutagesSkippedAndCounted ==
    [][OutagesOnlyStep =>
          LET network_outages == last'.log[1].network_outages
              known == KnownNetworks(db, last'.mode)
              unknown == {o \in network_outages : o.network_id \notin known}
          IN /\ UnknownOutagesLeaveNoTrace(db, db', last'.mode, network_outages)
             /\ unknown # {} => last'.log[4] = <<Cardinality(unknown)>>]_vars

\* C12 amended: the same, with the skipped total computed and reported only
\* when the networks table holds at least one row; with an empty table the
\* run returns before it counts anything.
C12_UnknownOutagesSkipped ==
    [][OutagesOnlyStep =>
          LET network_outages == last'.log[1].network_outages
              known == KnownNetworks(db, last'.mode)
          IN /\ UnknownOutagesLeaveNoTrace(db, db', last'.mode, network_outages)
             /\ last'.log[4] =
                   IF known = {} THEN <<>>
                   ELSE <<Cardinality({o \in network_outages :
                                          o.network_id \notin known})>>]_vars

\* a run without discovery data found network 1 or 2 in the store, was given
\* an outage of the other one, and reported one skipped row
C12_Witness ==
    /\ BatchCompleted /\ ~last.has_discovery /\ last.log # <<>>
    /\ last.log[4] = <<1>>
    /\ Cardinality(db.networks) = 1
    /\ \E o \in last.log[1].network_outages :
          o.network_id \notin {n.network_id : n \in db.networks}

\* ------------------------------------------------------------------------
\* process_property_outages_db.py : the input files of a run
\* ------------------------------------------------------------------------
\* what the discovery argument of a run can be: no file, a file without one
\* of the columns 'MDU Name' and 'Eero Network ID', a file with both
DiscoveryFiles == {"none", "missing_columns", "ok"}

\* process_outages_to_db from the reading of its files: outage_columns tells
\* whether the outages file has network_id, start_time and end_time.  A
\* missing outage column ends the process with sys.exit(1) before the store
\* is opened; a missing discovery column sets eero_details to None and the
\* run goes on without discovery data.
read_and_process(d, mode, outage_columns, discovery_file, eero_details, network_outages, t) ==
    IF ~outage_columns
    THEN [db |-> d, exited |-> TRUE, raised |-> FALSE, has_discovery |-> FALSE]
    ELSE LET has_discovery == discovery_file = "ok"
             run == process_outages_to_db(d, mode, has_discovery,
                        IF has_discovery THEN eero_details ELSE {},
                        network_outages, t)
         IN [db |-> run.db, exited |-> FALSE, raised |-> run.raised,
             has_discovery |-> has_discovery]

\* one invocation of the batch script on a pair of files
FileRun(mode, outage_columns, discovery_file, eero_details, network_outages) ==
    LET run == read_and_process(db, mode, outage_columns, discovery_file,
                                eero_details, network_outages, now)
    IN /\ runs < MaxRuns
       /\ runs' = runs + 1
       /\ db' = run.db
       /\ last' = [op |-> "files", mode |-> mode, outage_columns |-> outage_columns,
                   discovery_file |-> discovery_file, exited |-> run.exited,
                   raised |-> run.raised]
       /\ UNCHANGED <<now, feed, pollers, feed_changes>>

\* The batch script run on files that may lack required columns
NextFiles ==
    \/ Tick
    \/ \E mode \in {"append", "rebuild"}, outage_columns \in BOOLEAN,
          discovery_file \in DiscoveryFiles,
          S \in Snapshots({PropOrder[1]}, EquipPlain), B \in Batches(now, 1) :
          FileRun(mode, outage_columns, discovery_file, S, B)

SpecFiles == Init /\ [][NextFiles]_vars

\* C13: if a required column is absent from the outages file or from the
\* discovery file, the run terminates with an error before any store
\* mutation: nothing is wiped, purged, inserted or updated.
C13_MissingColumnAbortsBeforeMutation ==
    [][(/\ runs' = runs + 1
        /\ last'.op = "files"
        /\ (~last'.outage_columns \/ last'.discovery_file = "missing_columns"))
          => (last'.exited /\ db' = db)]_vars

\* ------------------------------------------------------------------------
\* track_multiday_outages.py
\* ------------------------------------------------------------------------
\* days_back of get_potentially_ongoing_outages
MultidayDaysBack == 3

\* The SELECT of get_potentially_ongoing_outages: the rows of outages joined
\* with networks and properties whose start text is not below the cutoff and
\* whose end is NULL or more than one day (julianday) after the start
get_potentially_ongoing_outages(d, t) ==
    LET cutoff_date == IsoFormat(t - MultidayDaysBack * SlotsPerDay)
        joined == {n.network_id : n \in
                     {m \in d.networks :
                         \E p \in d.properties : p.property_id = m.property_id}}
    IN {o \in DOMAIN d.outages :
          /\ o.network_id \in joined
          /\ TextGE(o.wan_down_start, cutoff_date)
          /\ \/ o.wan_down_end = NULL
             \/ Instant(o.wan_down_end) - Instant(o.wan_down_start) > SlotsPerDay}

matching_outage_by_instant(start_time, api_outages) ==
    {o \in api_outages :
        o.start # NULL /\ Instant(ReplaceZ(o.start)) = Instant(start_time)}

\* the outages of the response with
\* api_start.replace('Z', '+00:00') == start_time, start_time being the text
\* stored in outages.wan_down_start
matching_outage(start_time, api_outages) ==
    {o \in api_outages : o.start # NULL /\ ReplaceZ(o.start) = start_time}

\* UPDATE outages SET wan_down_end = ?[, reason = ?] WHERE outage_id = ?, for
\* every stored copy of the row; duration is not written
update_outage_in_db(d, row, end_time, reason) ==
    LET updated == [row EXCEPT !.wan_down_end = end_time,
                               !.reason = IF reason = "NULL" THEN @ ELSE reason]
        copies == d.outages[row]
        others == [r \in DOMAIN d.outages \ {row} |-> d.outages[r]]
    IN [d EXCEPT !.outages = others (+) [r \in {updated} |-> copies]]

\* a loop that compares instants of start and writes also in a dry run
RECURSIVE check_outages_ignoring_dry_run(_, _, _, _, _)
check_outages_ignoring_dry_run(d, rows, api, failed, dry_run) ==
    IF rows = {} THEN [db |-> d, updates_made |-> 0]
    ELSE LET outage == CHOOSE r \in rows : TRUE
             matches == IF outage.network_id \in failed THEN {}
                        ELSE matching_outage_by_instant(outage.wan_down_start,
                                                        api[outage.network_id])
             matching == CHOOSE o \in matches : TRUE
             api_end_time == ReplaceZ(matching.end)
             needs_update == /\ matches # {}
                             /\ api_end_time # NULL
                             /\ api_end_time # outage.wan_down_end
             d1 == IF needs_update
                   THEN update_outage_in_db(d, outage, api_end_time, matching.reason)
                   ELSE d
             rest == check_outages_ignoring_dry_run(d1, rows \ {outage}, api,
                                                    failed, dry_run)
         IN [db |-> rest.db,
             updates_made |-> rest.updates_made + (IF needs_update THEN 1 ELSE 0)]

\* the loop `for i, outage in enumerate(outages, 1)`: rows are the selected
\* rows still to visit
RECURSIVE check_outages(_, _, _, _, _)
check_outages(d, rows, api, failed, dry_run) ==
    IF rows = {} THEN [db |-> d, updates_made |-> 0]
    ELSE LET outage == CHOOSE r \in rows : TRUE
             matches == IF outage.network_id \in failed THEN {}
                        ELSE matching_outage(outage.wan_down_start,
                                             api[outage.network_id])
             matching == CHOOSE o \in matches : TRUE
             api_end_time == ReplaceZ(matching.end)
             needs_update == /\ matches # {}
                             /\ api_end_time # NULL
                             /\ api_end_time # outage.wan_down_end
             d1 == IF needs_update /\ ~dry_run
                   THEN update_outage_in_db(d, outage, api_end_time, matching.reason)
                   ELSE d
             rest == check_outages(d1, rows \ {outage}, api, failed, dry_run)
         IN [db |-> rest.db,
             updates_made |-> rest.updates_made + (IF needs_update THEN 1 ELSE 0)]

process_multiday_outages(d, api, failed, dry_run, t) ==
    check_outages(d, get_potentially_ongoing_outages(d, t), api, failed, dry_run)

\* end minus start of the outage events of a file, in slots: an end before
\* the start, a short outage, an outage of more than a day
EndDeltasAny == {-1, 1, SlotsPerDay + 1}

EventsAnyEnd(t) ==
    {OutageEvent(n, s, s + dl) :
        n \in NetIds, s \in Max(0, t - MaxEventAge)..t, dl \in EndDeltasAny}

\* one run of process_multiday_outages, from start to exit
MultidayRun(failed, dry_run) ==
    LET run == process_multiday_outages(db, feed, failed, dry_run, now) IN
    /\ runs < MaxRuns
    /\ runs' = runs + 1
    /\ db' = run.db
    /\ last' = [op |-> "multiday", dry_run |-> dry_run, failed |-> failed,
                raised |-> FALSE,
                selected |-> get_potentially_ongoing_outages(db, now),
                updates_made |-> run.updates_made]
    /\ UNCHANGED <<now, feed, pollers, feed_changes>>

\* The batch pipeline and the multi-day tracker, one run at a time
NextMultiday ==
    \/ Tick
    \/ FeedStep
    \/ /\ runs < MaxTrackerRuns
       /\ \E mode \in {"append", "rebuild"}, S \in Snapshots({PropOrder[1]}, EquipPlain),
             o \in EventsAnyEnd(now) :
             BatchRun(mode, TRUE, S, {o}, FALSE)
    \/ /\ runs < MaxTrackerRuns
       /\ \E failed \in SUBSET NetIds, dry_run \in BOOLEAN : MultidayRun(failed, dry_run)

SpecMultiday == Init /\ [][NextMultiday]_vars

\* C14: in every reachable state every historical Outage row has
\* wan_down_end >= wan_down_start and a duration equal to wan_down_end minus
\* wan_down_start, also when the input row had its end before its start and
\* when the multi-day tracker has rewritten the end.
C14_EndNotBeforeStartAndDurationDerived ==
    \A r \in DOMAIN db.outages :
        /\ Instant(r.wan_down_end) >= Instant(r.wan_down_start)
        /\ r.duration = Instant(r.wan_down_end) - Instant(r.wan_down_start)

DiscoveryAppendStep ==
    /\ runs' = runs + 1
    /\ last'.op = "batch" /\ last'.mode = "append" /\ last'.has_discovery
    /\ ~last'.raised /\ last'.log # <<>>

\* C16: when a run with discovery data finds in the store a Network that the
\* snapshot does not list, then after the run that Network, all its raw
\* Outage rows and all its hourly rollup rows are gone, and no Property is
\* left without a Network.
C16_RemovalCascade ==
    [][DiscoveryAppendStep =>
          LET listed == {r.net : r \in last'.log[1].eero_details}
              absent == {n.network_id : n \in db.networks} \ listed
          IN absent # {} =>
                /\ \A n \in db'.networks : n.network_id \notin absent
                /\ \A o \in DOMAIN db'.outages : o.network_id \notin absent
                /\ \A r \in db'.network_hourly_outages : r.network_id \notin absent
                /\ \A p \in db'.properties :
                      \E n \in db'.networks : n.property_id = p.property_id]_vars

\* an append run has removed one of two networks, with its raw outage and its
\* rollup row, and the property that was left without a network
C16_Witness ==
    /\ BatchCompleted /\ last.mode = "append" /\ last.has_discovery /\ last.log # <<>>
    /\ last.log[2].networks = 2 /\ Cardinality(db.networks) = 1
    /\ last.log[2].properties = 2 /\ Cardinality(db.properties) = 1
    /\ last.log[2].outages = 1 /\ BagCardinality(db.outages) = 0
    /\ last.log[2].network_hourly_outages = 1 /\ db.network_hourly_outages = {}
    /\ last.log[1].network_outages = {}

\* a step that is a completed append run with discovery data that found a
\* network to remove: the removal pass is the one place where such a run
\* deletes networks rows
RemovalPassStep ==
    /\ runs' = runs + 1
    /\ last'.op = "batch" /\ last'.mode = "append" /\ last'.has_discovery
    /\ ~last'.raised
    /\ \E n \in db.networks :
          \A m \in db'.networks : m.network_id # n.network_id

\* the sum of the total_outages column over a set of networks rows
RECURSIVE SumNetworkTotals(_)
SumNetworkTotals(rows) ==
    IF rows = {} THEN 0
    ELSE LET r == CHOOSE x \in rows : TRUE
         IN r.total_outages + SumNetworkTotals(rows \ {r})

\* C17: after a network-removal pass, each remaining Property has
\* total_networks equal to the number of its remaining Network rows and
\* total_outages equal to the sum of total_outages over its remaining
\* Network rows.
C17_PropertyTotalsMatchNetworks ==
    [][RemovalPassStep =>
          \A p \in db'.properties :
             LET nets == {n \in db'.networks : n.property_id = p.property_id}
             IN /\ p.total_networks = Cardinality(nets)
                /\ p.total_outages = SumNetworkTotals(nets)]_vars

\* C18: in append mode a Property row is deleted only when no Network row
\* belongs to it after a network-removal pass, and a Property that the
\* discovery snapshot of the run lists with at least one network is in the
\* store when the run has ended.
C18_ListedPropertyNeverDeleted ==
    [][DiscoveryAppendStep =>
          /\ \A p \in db.properties :
                (\A q \in db'.properties : q.property_id # p.property_id) =>
                   /\ RemovalPassStep
                   /\ \A n \in db'.networks : n.property_id # p.property_id
          /\ \A r \in last'.log[1].eero_details :
                \E q \in db'.properties : q.property_name = r.mdu]_vars


\* ------------------------------------------------------------------------
\* Property-wide-outage classifier: the query of /api/property-wide-outages
\* (api_server.py) and the alerting check at the end of a batch run.  Both
\* are read-only.  In this part time is counted in hours,
\* ClassifierHoursPerDay to a day, so that a lookback window holds several
\* hours; a timestamp text is <<day, separator, hour of day, suffix>>.
\* ------------------------------------------------------------------------
ClassifierHoursPerDay == 2
MaxTotalNetworks == 10
ClassifierNow == 2 * ClassifierHoursPerDay - 1

\* str(pd.Timestamp) of an hour
HourText(t) == <<t \div ClassifierHoursPerDay, " ", t % ClassifierHoursPerDay, "+00:00">>

\* (datetime.now() - 24 hours).isoformat()
twenty_four_hours_ago(t) ==
    <<(t - ClassifierHoursPerDay) \div ClassifierHoursPerDay, "T",
      (t - ClassifierHoursPerDay) % ClassifierHoursPerDay, ".ffffff">>

\* the comparison multiplied out, which passes a group whose total_networks
\* is 0 instead of dropping it as NULL
having_more_than_80_multiplied(networks_with_outages, total_networks) ==
    networks_with_outages * 10 > total_networks * 8

\* the comparison with >= in place of >
having_more_than_80_at_least(networks_with_outages, total_networks) ==
    /\ total_networks # 0
    /\ networks_with_outages * 10 >= total_networks * 8

\* HAVING CAST(COUNT(DISTINCT nho.network_id) AS FLOAT) / p.total_networks > 0.8
\* a division by 0 gives NULL and the group is dropped; the quotient of two
\* small integers is the double nearest to the exact ratio, as is the literal
having_more_than_80(networks_with_outages, total_networks) ==
    /\ total_networks # 0
    /\ networks_with_outages * 10 > total_networks * 8

\* p.total_networks > 0 ... HAVING outage_percentage >= 75
having_at_least_75(networks_down, total_networks) ==
    /\ total_networks > 0
    /\ networks_down * 100 >= total_networks * 75

\* the rows of the API query: one group for each property and outage_hour
\* of the joined network_hourly_outages rows at or after the cutoff text
api_property_wide_outages(d, t) ==
    LET joined == {<<p, n, nho>> \in
                      d.properties \X d.networks \X d.network_hourly_outages :
                        /\ p.property_id = n.property_id
                        /\ n.network_id = nho.network_id
                        /\ TextGE(nho.outage_hour, twenty_four_hours_ago(t))}
        groups == {<<j[1], j[3].outage_hour>> : j \in joined}
        networks_with_outages(g) ==
            Cardinality({j[3].network_id : j \in
                            {k \in joined : k[1] = g[1] /\ k[3].outage_hour = g[2]}})
    IN {[property_id |-> g[1].property_id,
         property_name |-> g[1].property_name,
         total_networks |-> g[1].total_networks,
         outage_hour |-> g[2],
         networks_with_outages |-> networks_with_outages(g)] :
           g \in {h \in groups :
                    having_more_than_80(networks_with_outages(h), h[1].total_networks)}}

\* the response: the rows in ORDER BY outage_hour DESC, of which the loop
\* keeps the first of each property (seen_properties)
get_property_wide_outages(d, t) ==
    LET rows == api_property_wide_outages(d, t)
    IN {r \in rows :
          \A q \in rows : q.property_id = r.property_id =>
                             TextGE(r.outage_hour, q.outage_hour)}

\* the alerting check of the batch run: one group for each property, over
\* the raw outages rows at or after the cutoff text
batch_property_wide_outages(d, t) ==
    LET joined == {<<p, n, o>> \in d.properties \X d.networks \X DOMAIN d.outages :
                        /\ p.property_id = n.property_id
                        /\ n.network_id = o.network_id
                        /\ TextGE(o.wan_down_start, twenty_four_hours_ago(t))
                        /\ p.total_networks > 0}
        groups == {j[1] : j \in joined}
        networks_down(p) ==
            Cardinality({j[2].network_id : j \in {k \in joined : k[1] = p}})
    IN {[property_name |-> p.property_name,
         total_networks |-> p.total_networks,
         networks_down |-> networks_down(p)] :
           p \in {q \in groups : having_at_least_75(networks_down(q), q.total_networks)}}

\* a store with one property of total_networks networks, of which the first
\* `early` had an outage in the first hour of today, the last `late` in the
\* second hour of today, and, if `old`, network 1 in the last hour of yesterday
ClassifierStore(total_networks, early, late, old) ==
    LET starts == {<<n, ClassifierNow - 1>> : n \in 1..early}
                  \cup {<<n, ClassifierNow>> : n \in (total_networks - late + 1)..total_networks}
                  \cup (IF old THEN {<<1, ClassifierNow - 2>>} ELSE {})
    IN [EmptyDb EXCEPT
          !.properties = {[property_id |-> 1, property_name |-> PropOrder[1],
                           total_networks |-> total_networks,
                           total_outages |-> Cardinality(starts),
                           last_updated |-> <<ClassifierNow \div ClassifierHoursPerDay, " ",
                                              ClassifierNow % ClassifierHoursPerDay, ".ffffff">>]},
          !.sqlite_sequence.properties = 1,
          !.networks = {[network_id |-> n, property_id |-> 1,
                         total_outages |-> Cardinality({s \in starts : s[1] = n})] :
                          n \in 1..total_networks},
          !.outages = SetToBag({[network_id |-> s[1],
                                 wan_down_start |-> HourText(s[2]),
                                 wan_down_end |-> HourText(s[2] + 1),
                                 duration |-> 1, reason |-> "NULL"] : s \in starts}),
          !.network_hourly_outages =
              {[network_id |-> s[1], outage_hour |-> HourText(s[2]), outage_count |-> 1] :
                 s \in starts},
          !.property_hourly_outages =
              {[property_id |-> 1, outage_hour |-> HourText(h),
                total_outage_count |-> Cardinality({s \in starts : s[2] = h})] :
                 h \in {s[2] : s \in starts}}]

\* the store the queries read: properties.total_networks is a plain INTEGER
\* column, read as stored; the value 0 is drawn as well, over the same
\* networks and outages rows
InitClassifier ==
    /\ \E total_networks \in 1..MaxTotalNetworks :
       \E early \in 0..total_networks, late \in 0..total_networks, old \in BOOLEAN :
       \E stored \in {0, total_networks} :
          db = [ClassifierStore(total_networks, early, late, old) EXCEPT
                  !.properties = {[p EXCEPT !.total_networks = stored] : p \in @}]
    /\ now = ClassifierNow
    /\ feed = [n \in NetIds |-> {}]
    /\ pollers = [p \in Pollers |-> Idle]
    /\ last = [op |-> "init"]
    /\ runs = 0
    /\ feed_changes = 0

\* GET /api/property-wide-outages
ApiRequest ==
    /\ last' = [op |-> "api", rows |-> api_property_wide_outages(db, now),
                properties |-> get_property_wide_outages(db, now)]
    /\ UNCHANGED <<db, now, feed, pollers, runs, feed_changes>>

\* the alerting check of a batch run over the store it has written
AlertCheck ==
    /\ last' = [op |-> "alert",
                property_wide_outages |-> batch_property_wide_outages(db, now)]
    /\ UNCHANGED <<db, now, feed, pollers, runs, feed_changes>>

NextClassifier == ApiRequest \/ AlertCheck

SpecClassifier == InitClassifier /\ [][NextClassifier]_vars

\* the hours the store has rows for that are in the lookback window of the
\* two queries
WindowHours(d, t) ==
    {r.outage_hour : r \in {x \in d.network_hourly_outages :
                              TextGE(x.outage_hour, twenty_four_hours_ago(t))}}

\* the number of distinct networks of a property with an outage in an hour
DistinctNetworksInHour(d, property_id, outage_hour) ==
    Cardinality({r.network_id : r \in
        {x \in d.network_hourly_outages :
            /\ x.outage_hour = outage_hour
            /\ \E n \in d.networks :
                  n.network_id = x.network_id /\ n.property_id = property_id}})

\* C19: at both classifier call sites a property is reported for an hour of
\* the lookback window iff the distinct networks of the property with an
\* outage in that same hour, divided by total_networks, pass the threshold
\* of the site (more than 0.80 for the API, at least 0.75 for the alerting
\* check); networks whose outages fall in different hours are never counted
\* together.
C19_ClassifiedPerHourAtBothSites ==
    /\ last.op = "api" =>
          \A p \in db.properties : \A h \in WindowHours(db, now) :
             (\E r \in last.properties :
                 r.property_id = p.property_id /\ r.outage_hour = h)
             <=> having_more_than_80(DistinctNetworksInHour(db, p.property_id, h),
                                     p.total_networks)
    /\ last.op = "alert" =>
          \A p \in db.properties :
             (\E r \in last.property_wide_outages : r.property_name = p.property_name)
             <=> \E h \in WindowHours(db, now) :
                    having_at_least_75(DistinctNetworksInHour(db, p.property_id, h),
                                       p.total_networks)

\* an hour of the lookback window in which exactly k distinct networks of
\* the property had an outage
HoursWith(d, t, property_id, k) ==
    {h \in WindowHours(d, t) : DistinctNetworksInHour(d, property_id, h) = k}

\* C20 as stated: with total_networks = 10 and the threshold 0.80 of the API
\* query, an hour in which 8 distinct networks of the property have an outage
\* is classified property-wide, and an hour with 7 is not.
C20_EightOfTenIsPropertyWide ==
    last.op = "api" =>
       \A p \in {q \in db.properties : q.total_networks = 10} :
          /\ \A h \in HoursWith(db, now, p.property_id, 8) :
                \E r \in last.rows : r.property_id = p.property_id /\ r.outage_hour = h
          /\ \A h \in HoursWith(db, now, p.property_id, 7) :
                \A r \in last.rows : ~(r.property_id = p.property_id /\ r.outage_hour = h)

\* C20: with total_networks = 10 the API query (more than 0.80) classifies an
\* hour with 9 distinct networks as property-wide and an hour with 8 or with
\* 7 not; the alerting check (at least 75% over the window) reports a
\* property with 8 distinct networks down and not one with 7.
C20_NineOfTenIsPropertyWide ==
    /\ last.op = "api" =>
          \A p \in {q \in db.properties : q.total_networks = 10} :
             /\ \A h \in HoursWith(db, now, p.property_id, 9) :
                   \E r \in last.rows : r.property_id = p.property_id /\ r.outage_hour = h
             /\ \A h \in HoursWith(db, now, p.property_id, 8)
                         \cup HoursWith(db, now, p.property_id, 7) :
                   \A r \in last.rows :
                      ~(r.property_id = p.property_id /\ r.outage_hour = h)
    /\ last.op = "alert" =>
          \A p \in {q \in db.properties : q.total_networks = 10} :
             LET down == Cardinality({o.network_id : o \in
                            {x \in DOMAIN db.outages :
                               /\ TextGE(x.wan_down_start, twenty_four_hours_ago(now))
                               /\ \E n \in db.networks :
                                     /\ n.network_id = x.network_id
                                     /\ n.property_id = p.property_id}})
             IN /\ down = 8 =>
                      \E r \in last.property_wide_outages : r.property_name = p.property_name
                /\ down = 7 =>
                      \A r \in last.property_wide_outages : r.property_name # p.property_name

\* the API query has run over a property of 10 networks of which 8 had an
\* outage in one hour of the window and none in another, and reports nothing
C20_Witness ==
    /\ last.op = "api"
    /\ \E p \in db.properties :
          /\ p.total_networks = 10
          /\ HoursWith(db, now, p.property_id, 8) # {}
          /\ Cardinality(WindowHours(db, now)) = 1
    /\ last.rows = {}


\* C21: a Property with total_networks = 0 is never reported as
\* property-wide, by the API query or by the alerting check, whatever
\* networks and outages rows reference it; the division by 0 of the API
\* query is NULL in SQLite, which HAVING drops, and raises nothing.
C21_ZeroNetworksNeverPropertyWide ==
    \A p \in {q \in db.properties : q.total_networks = 0} :
       /\ last.op = "api" =>
             /\ \A r \in last.rows : r.property_id # p.property_id
             /\ \A r \in last.properties : r.property_id # p.property_id
       /\ last.op = "alert" =>
             \A r \in last.property_wide_outages : r.property_name # p.property_name

\* both queries have run over a property with total_networks = 0 all of
\* whose networks had an outage in the same hour of the window
C21_Witness ==
    /\ last.op \in {"api", "alert"}
    /\ \E p \in db.properties :
          /\ p.total_networks = 0
          /\ \E h \in WindowHours(db, now) :
                DistinctNetworksInHour(db, p.property_id, h)
                   = Cardinality({n \in db.networks : n.property_id = p.property_id})
          /\ Cardinality({n \in db.networks : n.property_id = p.property_id}) >= 2


\* ------------------------------------------------------------------------
\* Order of the classifier's result lists.  ORDER BY leaves the order of
\* rows with equal keys open: every order that agrees with the keys is a
\* result the query can give.
\* ------------------------------------------------------------------------
MaxOrderNetworks == 6
MaxOrderNetworksB == 2

\* the lists that hold every element of S once
Orderings(S) ==
    {f \in [1..Cardinality(S) -> S] : \A i, j \in DOMAIN f : f[i] = f[j] => i = j}

\* ROUND(CAST(n AS FLOAT) / total * 100, 1), in tenths of a percent
outage_percentage(networks_with_outages, total_networks) ==
    (2000 * networks_with_outages + total_networks) \div (2 * total_networks)

\* ORDER BY nho.outage_hour DESC, outage_percentage DESC
api_order(a, b) ==
    \/ TextLT(b.outage_hour, a.outage_hour)
    \/ /\ a.outage_hour = b.outage_hour
       /\ outage_percentage(a.networks_with_outages, a.total_networks)
             >= outage_percentage(b.networks_with_outages, b.total_networks)

\* ORDER BY outage_percentage DESC of the alerting check; the quotients of
\* two pairs of small integers compare as the exact ratios do
batch_order(a, b) ==
    a.networks_down * b.total_networks >= b.networks_down * a.total_networks

\* fetchall() of the API query
api_fetchall(d, t) ==
    {f \in Orderings(api_property_wide_outages(d, t)) :
        \A i, j \in DOMAIN f : i < j => api_order(f[i], f[j])}

\* the loop over the rows that appends the first row of each property
RECURSIVE first_of_each_property(_, _)
first_of_each_property(rows, seen_properties) ==
    IF rows = <<>> THEN <<>>
    ELSE IF Head(rows).property_id \in seen_properties
         THEN first_of_each_property(Tail(rows), seen_properties)
         ELSE <<Head(rows)>> \o
              first_of_each_property(Tail(rows),
                                     seen_properties \cup {Head(rows).property_id})

\* cursor.fetchall() of the alerting check, appended row by row to the list
\* that notify_property_wide_outages receives
batch_fetchall(d, t) ==
    {f \in Orderings(batch_property_wide_outages(d, t)) :
        \A i, j \in DOMAIN f : i < j => batch_order(f[i], f[j])}

\* the store of ClassifierStore with its property under another id and name
\* and its network ids moved up by `shift`
RenumberedStore(d, property_id, property_name, shift) ==
    [d EXCEPT
       !.properties = {[p EXCEPT !.property_id = property_id,
                                 !.property_name = property_name] : p \in @},
       !.networks = {[n EXCEPT !.network_id = @ + shift,
                               !.property_id = property_id] : n \in @},
       !.outages = SetToBag({[o EXCEPT !.network_id = @ + shift] : o \in DOMAIN @}),
       !.network_hourly_outages = {[r EXCEPT !.network_id = @ + shift] : r \in @},
       !.property_hourly_outages = {[r EXCEPT !.property_id = property_id] : r \in @}]

\* a store with two properties
TwoPropertyStore(a, b) ==
    [a EXCEPT
       !.properties = @ \cup b.properties,
       !.sqlite_sequence.properties = 2,
       !.networks = @ \cup b.networks,
       !.outages = @ (+) b.outages,
       !.network_hourly_outages = @ \cup b.network_hourly_outages,
       !.property_hourly_outages = @ \cup b.property_hourly_outages]

InitOrdering ==
    /\ \E tA \in 1..MaxOrderNetworks, tB \in 1..MaxOrderNetworksB :
       \E eA \in 0..tA, lA \in 0..tA, eB \in 0..tB, lB \in 0..tB :
          db = TwoPropertyStore(
                  ClassifierStore(tA, eA, lA, FALSE),
                  RenumberedStore(ClassifierStore(tB, eB, lB, FALSE),
                                  2, PropOrder[2], MaxOrderNetworks))
    /\ now = ClassifierNow
    /\ feed = [n \in NetIds |-> {}]
    /\ pollers = [p \in Pollers |-> Idle]
    /\ last = [op |-> "init"]
    /\ runs = 0
    /\ feed_changes = 0

\* GET /api/property-wide-outages: the rows as fetched and the list of the
\* response
ApiResponse ==
    /\ \E rows \in api_fetchall(db, now) :
          last' = [op |-> "api", rows |-> rows,
                   properties |-> first_of_each_property(rows, {})]
    /\ UNCHANGED <<db, now, feed, pollers, runs, feed_changes>>

\* the alerting check: the list handed to notify_property_wide_outages
AlertList ==
    /\ \E rows \in batch_fetchall(db, now) :
          last' = [op |-> "alert", property_wide_outages |-> rows]
    /\ UNCHANGED <<db, now, feed, pollers, runs, feed_changes>>

NextOrdering == ApiResponse \/ AlertList

SpecOrdering == InitOrdering /\ [][NextOrdering]_vars

\* the most recent hour of the lookback window in which a network of the
\* property had an outage
LatestOutageHour(d, t, property_name) ==
    LET hours == {h \in WindowHours(d, t) :
                    \E p \in d.properties :
                       /\ p.property_name = property_name
                       /\ DistinctNetworksInHour(d, p.property_id, h) > 0}
    IN CHOOSE h \in hours : \A g \in hours : TextGE(h, g)

\* the list of the API response is ordered by hour, most recent first, and
\* within an hour by percentage, highest first
ApiListOrdered ==
    last.op = "api" =>
       /\ \A i, j \in DOMAIN last.rows : i < j => api_order(last.rows[i], last.rows[j])
       /\ \A i, j \in DOMAIN last.properties :
             i < j => api_order(last.properties[i], last.properties[j])

\* C22: the classifier's result list is ordered by outage hour, most recent
\* first, and within the same hour by affected percentage, highest first, at
\* the API response and at the list the alerting check hands to the notifier.
C22_ResultsOrderedByHourThenSeverity ==
    /\ ApiListOrdered
    /\ last.op = "alert" =>
          \A i, j \in DOMAIN last.property_wide_outages : i < j =>
             LET a == last.property_wide_outages[i]
                 b == last.property_wide_outages[j]
                 ha == LatestOutageHour(db, now, a.property_name)
                 hb == LatestOutageHour(db, now, b.property_name)
             IN \/ TextLT(hb, ha)
                \/ ha = hb /\ batch_order(a, b)


\* a step that is one run of the poller
PollStep == runs' = runs + 1 /\ last'.op = "poll"

\* the ongoing_outages rows of a network
OngoingRowsOf(d, network_id) == {r \in d.ongoing_outages : r.network_id = network_id}

\* C23: in a poll run, when the live-feed call for a network fails, the
\* ongoing_outages rows of that network are left unchanged and the network
\* is not queried again in the run, every other network of the run is still
\* processed (an open outage of the feed has its row checked now, an ended
\* one has none), and the error count of the run is the number of failed
\* calls.
C23_FailedCallSkipsOnlyThatNetwork ==
    [][PollStep =>
          LET networks == get_networks_with_recent_outages(db, now)
              skipped == {r.network_id : r \in last'.failed}
          IN /\ \A n \in skipped :
                   /\ OngoingRowsOf(db', n) = OngoingRowsOf(db, n)
                   /\ Cardinality({r \in networks : r.network_id = n}) = 1
             /\ last'.errors = Cardinality(last'.failed)
             /\ \A n \in {r.network_id : r \in networks} \ skipped : \A o \in feed[n] :
                   IF o.end = NULL
                   THEN \E r \in OngoingRowsOf(db', n) :
                           /\ r.wan_down_start = ReplaceZ(o.start)
                           /\ r.wan_down_end = NULL
                           /\ r.last_checked = IsoFormat(now)
                   ELSE \A r \in OngoingRowsOf(db', n) :
                           r.wan_down_start # ReplaceZ(o.start)]_vars


\* ------------------------------------------------------------------------
\* The poller on its schedule: cron starts track_ongoing_outages again and
\* again.  Every call of the live feed succeeds here, which is the best case
\* for a row to be closed.
\* ------------------------------------------------------------------------
MaxLiveRuns == 1

\* one run of track_ongoing_outages on the schedule
ScheduledPoll ==
    LET run == track_ongoing_outages(db, feed, {}, now) IN
    /\ db' = run.db
    /\ last' = [op |-> "poll", errors |-> run.errors, raised |-> run.raised]
    /\ UNCHANGED <<now, feed, pollers, runs, feed_changes>>

NextSchedule ==
    \/ Tick
    \/ FeedStep
    \/ /\ runs < MaxLiveRuns
       /\ \E mode \in {"append", "rebuild"}, S \in Snapshots({PropOrder[1]}, EquipPlain),
             B \in Batches(now, 1) :
             BatchRun(mode, TRUE, S, B, FALSE)
    \/ ScheduledPoll

SpecSchedule == Init /\ [][NextSchedule]_vars /\ WF_vars(ScheduledPoll)

\* network n has an open ongoing_outages row while the live feed reports no
\* open outage for it
StaleOpenRow(n) ==
    /\ \E r \in db.ongoing_outages : r.network_id = n /\ r.wan_down_end = NULL
    /\ \A o \in feed[n] : o.end # NULL

\* C24: an open OngoingOutage row whose network the live feed no longer
\* reports as down is closed or removed by a later poll run: under repeated
\* polling no such row stays open forever.
C24_StaleRowsEventuallyClosed ==
    \A n \in NetIds : StaleOpenRow(n) ~> ~StaleOpenRow(n)


\* C25: if the live feed reports a network of the store as down with no end
\* time, then after a poll run that completed with every call succeeding an
\* open ongoing_outages row for that (network, start) exists, for every
\* network of the store.
C25_OpenFeedOutageGetsRow ==
    [][(PollStep /\ last'.failed = {} /\ ~last'.raised) =>
          \A n \in db.networks : \A o \in feed[n.network_id] :
             o.end = NULL =>
                \E r \in OngoingRowsOf(db', n.network_id) :
                   r.wan_down_start = ReplaceZ(o.start) /\ r.wan_down_end = NULL]_vars


\* ------------------------------------------------------------------------
\* A batch run statement by statement.  The run's connection is opened with
\* sqlite3.connect(database_path): the first INSERT, UPDATE or DELETE after
\* a commit opens a transaction, and what the statements write is in the
\* store only after conn.commit().  db is the store as committed, last.tx
\* is the store as the run's connection sees it.  A run can be interrupted
\* between any two steps; the open transaction is then rolled back.
\* ------------------------------------------------------------------------
MaxInterruptRuns == 2

\* the store after a statement that is not a commit, under autocommit
after_statement_autocommit(committed, tx) == tx

\* the store after a statement that is not a commit
after_statement(committed, tx) == committed

\* the k-th group of statements of the block of one property
property_statement(tx, k, property_name, eero_details, network_outages, t) ==
    LET property_networks == {r \in eero_details : r.mdu = property_name}
        network_ids == {r.net : r \in property_networks}
        property_outages == {o \in network_outages : o.network_id \in network_ids}
        property_id ==
            (CHOOSE p \in tx.properties : p.property_name = property_name).property_id
    IN CASE k = 1 -> upsert_property(tx, property_name, Cardinality(network_ids),
                                     Cardinality(property_outages), t)
         [] k = 2 -> process_equipment(
                        insert_networks(tx, property_networks, property_id,
                                        property_outages),
                        property_networks, property_id)
         [] k = 3 -> IF property_outages = {} THEN tx
                     ELSE insert_outages(tx, property_outages)
         [] OTHER -> IF property_outages = {} THEN tx
                     ELSE [tx EXCEPT
                             !.property_hourly_outages =
                                 property_rollups(@, property_id, property_outages,
                                     {FloorHour(o.start_time) : o \in property_outages}),
                             !.network_hourly_outages =
                                 network_rollups(@, property_outages,
                                     {<<o.network_id, FloorHour(o.start_time)>> :
                                         o \in property_outages})]

\* the k-th group of statements of the branch without discovery data
outages_only_statement(tx, k, network_outages, t) ==
    LET existing_networks == {n.network_id : n \in tx.networks}
        valid_outages == {o \in network_outages : o.network_id \in existing_networks}
    IN CASE k = 1 -> insert_outages(tx, valid_outages)
         [] k = 2 -> add_network_outage_counts(tx, valid_outages)
         [] k = 3 -> rollups_by_network(tx, valid_outages,
                                        {o.network_id : o \in valid_outages})
         [] OTHER -> update_property_totals(tx, t)

PropertyStatements == 4
OutagesOnlyStatements == 4

\* the positions of PropOrder from i on whose property the snapshot lists
ListedFrom(eero_details, i) ==
    {j \in i..Len(PropOrder) : \E r \in eero_details : r.mdu = PropOrder[j]}

\* where the run goes after the commit that follows the wipe or the purge,
\* and after the commit of the block of the property at position i
AfterCommit(run, i) ==
    IF run.has_discovery
    THEN LET rest == ListedFrom(run.eero_details, i + 1)
         IN IF rest = {} THEN <<"statistics", 0, 0>>
            ELSE <<"property", CHOOSE j \in rest : \A m \in rest : j <= m, 1>>
    ELSE LET existing_networks == {n.network_id : n \in run.tx.networks}
         IN IF existing_networks = {}
               \/ \A o \in run.network_outages : o.network_id \notin existing_networks
            THEN <<"done", 0, 0>>
            ELSE <<"outages_only", 0, 1>>

InFlight == last.op = "run" /\ last.pc[1] \notin {"done", "interrupted", "raised"}

\* process_outages_to_db is called: connect, and the statements of
\* clear_existing_data or clear_old_data
RunStart(mode, has_discovery, eero_details, network_outages) ==
    /\ ~InFlight
    /\ runs < MaxInterruptRuns
    /\ runs' = runs + 1
    /\ last' = [op |-> "run", pc |-> <<"clear", 0, 0>>, mode |-> mode,
                has_discovery |-> has_discovery, eero_details |-> eero_details,
                network_outages |-> network_outages, t |-> now,
                begin |-> db, commits |-> 0,
                tx |-> IF mode = "rebuild" THEN clear_existing_data(db)
                       ELSE clear_old_data(db, now)]
    /\ db' = after_statement(db, IF mode = "rebuild" THEN clear_existing_data(db)
                                 ELSE clear_old_data(db, now))
    /\ UNCHANGED <<now, feed, pollers, feed_changes>>

\* conn.commit()
Commit ==
    /\ InFlight
    /\ \/ last.pc[1] = "clear"
       \/ last.pc[1] = "property" /\ last.pc[3] > PropertyStatements
       \/ last.pc[1] = "outages_only" /\ last.pc[3] > OutagesOnlyStatements
       \/ last.pc[1] \in {"statistics_done", "removal_done"}
    /\ db' = last.tx
    /\ last' = [last EXCEPT
                  !.commits = @ + 1,
                  !.pc = CASE last.pc[1] = "clear" -> AfterCommit(last, 0)
                           [] last.pc[1] = "property" -> AfterCommit(last, last.pc[2])
                           [] last.pc[1] = "statistics_done" -> <<"removal", 0, 0>>
                           [] OTHER -> <<"done", 0, 0>>]
    /\ UNCHANGED <<now, feed, pollers, runs, feed_changes>>

\* the next statements of the block of a property
PropertyStep ==
    /\ InFlight
    /\ last.pc[1] = "property" /\ last.pc[3] <= PropertyStatements
    /\ LET tx == property_statement(last.tx, last.pc[3], PropOrder[last.pc[2]],
                                    last.eero_details, last.network_outages, last.t)
       IN /\ last' = [last EXCEPT !.tx = tx, !.pc = <<"property", last.pc[2], last.pc[3] + 1>>]
          /\ db' = after_statement(db, tx)
    /\ UNCHANGED <<now, feed, pollers, runs, feed_changes>>

\* the next statements of the branch without discovery data
OutagesOnlyRunStep ==
    /\ InFlight
    /\ last.pc[1] = "outages_only" /\ last.pc[3] <= OutagesOnlyStatements
    /\ LET tx == outages_only_statement(last.tx, last.pc[3], last.network_outages, last.t)
       IN /\ last' = [last EXCEPT !.tx = tx, !.pc = <<"outages_only", 0, last.pc[3] + 1>>]
          /\ db' = after_statement(db, tx)
    /\ UNCHANGED <<now, feed, pollers, runs, feed_changes>>

\* reconcile_ongoing_outages and the equipment statistics
StatisticsStep ==
    /\ InFlight
    /\ last.pc[1] = "statistics"
    /\ LET rec == reconcile_ongoing_outages(last.tx)
           tx == update_equipment_statistics(rec.db)
       IN IF rec.raised
          THEN /\ last' = [last EXCEPT !.pc = <<"raised", 0, 0>>, !.tx = db]
               /\ db' = db
          ELSE /\ last' = [last EXCEPT !.tx = tx, !.pc = <<"statistics_done", 0, 0>>]
               /\ db' = after_statement(db, tx)
    /\ UNCHANGED <<now, feed, pollers, runs, feed_changes>>

\* the removal pass; without a network to remove the run writes nothing more
RemovalStep ==
    /\ InFlight
    /\ last.pc[1] = "removal"
    /\ LET tx == remove_networks(last.tx, last.eero_details)
       IN IF tx = last.tx
          THEN /\ last' = [last EXCEPT !.pc = <<"done", 0, 0>>]
               /\ db' = db
          ELSE /\ last' = [last EXCEPT !.tx = tx, !.pc = <<"removal_done", 0, 0>>]
               /\ db' = after_statement(db, tx)
    /\ UNCHANGED <<now, feed, pollers, runs, feed_changes>>

\* the run is interrupted (an exception, a signal, the process is killed):
\* the open transaction is rolled back
Interrupt ==
    /\ InFlight
    /\ last' = [last EXCEPT !.pc = <<"interrupted", 0, 0>>, !.tx = db]
    /\ UNCHANGED <<db, now, feed, pollers, runs, feed_changes>>

NextInterrupt ==
    \/ /\ ~InFlight
       /\ Tick
    \/ \E mode \in {"append", "rebuild"}, S \in Snapshots(PropNames, EquipPlain),
          B \in Batches(now, 1) :
          RunStart(mode, TRUE, S, B)
    \/ \E mode \in {"append", "rebuild"}, B \in Batches(now, 1) :
          RunStart(mode, FALSE, {}, B)
    \/ Commit
    \/ PropertyStep
    \/ OutagesOnlyRunStep
    \/ StatisticsStep
    \/ RemovalStep
    \/ Interrupt

SpecInterrupt == Init /\ [][NextInterrupt]_vars

\* the store after the first n commits of a run, from the whole-block
\* operators: the wipe or purge, then one block for each listed property in
\* order, then the statistics, then the removal pass; without discovery data
\* the wipe or purge, then the whole branch
RECURSIVE Checkpoint(_, _)
Checkpoint(run, n) ==
    LET cleared == IF run.mode = "rebuild" THEN clear_existing_data(run.begin)
                   ELSE clear_old_data(run.begin, run.t)
        listed == ListedFrom(run.eero_details, 1)
        nth(k) == CHOOSE j \in listed : Cardinality({m \in listed : m < j}) = k - 1
    IN IF n = 0 THEN run.begin
       ELSE IF n = 1 THEN cleared
       ELSE IF ~run.has_discovery
       THEN process_outages_only(cleared, run.network_outages, run.t).db
       ELSE IF n - 1 <= Cardinality(listed)
       THEN process_property(Checkpoint(run, n - 1), PropOrder[nth(n - 1)],
                             run.eero_details, run.network_outages, run.t)
       ELSE IF n - 1 = Cardinality(listed) + 1
       THEN update_equipment_statistics(Checkpoint(run, n - 1))
       ELSE remove_networks(Checkpoint(run, n - 1), run.eero_details)

\* the additive counters of the store
CountersNotNegative(d) ==
    /\ \A p \in d.properties : p.total_outages >= 0 /\ p.total_networks >= 0
    /\ \A n \in d.networks : n.total_outages >= 0
    /\ \A r \in d.network_hourly_outages : r.outage_count >= 0
    /\ \A r \in d.property_hourly_outages : r.total_outage_count >= 0

\* C26: at every point of a batch run, and after an interruption at any
\* point, the store holds exactly the effects of the commits made so far:
\* the block of each property (upserts, raw outages, rollup increments) is
\* there entirely or not at all, the branch without discovery data is there
\* entirely or not at all, and no counter is negative.
C26_InterruptedRunKeepsCheckpoints ==
    last.op = "run" =>
       /\ db = Checkpoint(last, last.commits)
       /\ CountersNotNegative(db)

\* a run over two properties with an outage each was interrupted inside the
\* block of the second one, after the block of the first was committed
C26_Witness ==
    /\ last.op = "run" /\ last.pc[1] = "interrupted"
    /\ last.has_discovery /\ last.commits = 2
    /\ Cardinality(ListedFrom(last.eero_details, 1)) = 2
    /\ last.network_outages # {}
    /\ BagCardinality(db.outages) > BagCardinality(last.begin.outages)
    /\ Cardinality(db.properties) = 1


\* ------------------------------------------------------------------------
\* Equipment associations after a discovery run
\* ------------------------------------------------------------------------
DiscoveryStep ==
    /\ runs' = runs + 1
    /\ last'.op = "batch" /\ last'.has_discovery
    /\ ~last'.raised /\ last'.log # <<>>

\* the names of the catalog rows the property is linked to
LinkedNames(d, table, link_table, property_id) ==
    {e.name : e \in {x \in d[table] :
                        \E l \in d[link_table] :
                            l.property_id = property_id /\ l.equipment_id = x.id}}

\* the shelves and routers the snapshot's rows of the property name
SnapshotShelves(eero_details, property_name) ==
    {parse_ont_name(r.equip) :
        r \in {x \in eero_details : x.mdu = property_name /\ x.equip # <<>>}} \ {""}

SnapshotRouters(eero_details, property_name) ==
    {r.r7x50 : r \in {x \in eero_details : x.mdu = property_name /\ x.equip # <<>>}} \ {""}

\* C27: after a discovery run has reprocessed a property, the shelves and
\* routers the property is associated with are exactly those named by the
\* equipment codes of the property's rows in the current snapshot.
C27_AssociationsFollowSnapshot ==
    [][DiscoveryStep =>
          LET eero_details == last'.log[1].eero_details IN
          \A p \in db'.properties :
             (\E r \in eero_details : r.mdu = p.property_name) =>
                /\ LinkedNames(db', "xpon_shelves", "property_xpon_shelves", p.property_id)
                      = SnapshotShelves(eero_details, p.property_name)
                /\ LinkedNames(db', "router_7x50s", "property_7x50s", p.property_id)
                      = SnapshotRouters(eero_details, p.property_name)]_vars


\* ------------------------------------------------------------------------
\* Keys of the store
\* ------------------------------------------------------------------------
\* C28: in every reachable state there is at most one Property per
\* property_name (and per property_id), one Network per network_id, one
\* property_hourly_outages row per (property_id, outage_hour) and one
\* network_hourly_outages row per (network_id, outage_hour).
C28_KeysAreUnique ==
    /\ \A p, q \in db.properties :
          (p.property_name = q.property_name \/ p.property_id = q.property_id) => p = q
    /\ \A m, n \in db.networks : m.network_id = n.network_id => m = n
    /\ \A r, s \in db.property_hourly_outages :
          (r.property_id = s.property_id /\ r.outage_hour = s.outage_hour) => r = s
    /\ \A r, s \in db.network_hourly_outages :
          (r.network_id = s.network_id /\ r.outage_hour = s.outage_hour) => r = s

\* an append run has stored an outage event a second time: the rows of its
\* property, network and hours were already there
C28_Witness ==
    /\ last.op = "batch" /\ last.mode = "append" /\ ~last.raised
    /\ \E o \in DOMAIN db.outages : db.outages[o] = 2
    /\ \E r \in db.network_hourly_outages : r.outage_count = 2
    /\ \E r \in db.property_hourly_outages : r.total_outage_count = 2
    /\ Cardinality(db.networks) = 1 /\ Cardinality(db.properties) = 1


\* ------------------------------------------------------------------------
\* The same files processed a second time in append mode
\* ------------------------------------------------------------------------
\* the files of the last run are processed again, in append mode, at the
\* current instant
ReplayRun ==
    /\ last.op = "batch" /\ last.mode = "append" /\ last.has_discovery
    /\ ~last.raised /\ last.log # <<>>
    /\ LET input == last.log[1]
           run == process_outages_to_db(db, "append", TRUE, input.eero_details,
                                        input.network_outages, now)
       IN /\ db' = run.db
          /\ last' = [op |-> "replay", raised |-> run.raised, input |-> input,
                      first |-> db, t |-> now]
    /\ UNCHANGED <<now, feed, pollers, runs, feed_changes>>

NextReplay ==
    \/ Tick
    \/ /\ last.op \in {"init", "batch"}
       /\ runs < MaxLoggedRuns
       /\ \E mode \in {"append", "rebuild"}, S \in Snapshots(PropNames, EquipPlain),
             B \in Batches(now, 1) :
             BatchRun(mode, TRUE, S, B, TRUE)
    \/ ReplayRun

SpecReplay == Init /\ [][NextReplay]_vars

Replayed == last.op = "replay" /\ ~last.raised

\* the events of the replayed batch the run stores: those of a listed network
StoredEvents(input) ==
    {o \in input.network_outages : \E r \in input.eero_details : r.net = o.network_id}

NetworkTotal(d, network_id) ==
    (CHOOSE n \in d.networks : n.network_id = network_id).total_outages

\* the property the run files the event under: the listed property of its network
PropertyIdOfEvent(d, input, o) ==
    LET row == CHOOSE r \in input.eero_details : r.net = o.network_id
    IN (CHOOSE p \in d.properties : p.property_name = row.mdu).property_id

\* C29 (as stated): after the same batch was processed a second time in
\* append mode, each affected rollup count and each affected network counter
\* is exactly twice its value after the first run, and each raw row of the
\* batch is stored twice.
C29_ReplayDoubles ==
    Replayed =>
       \A o \in StoredEvents(last.input) :
          LET h == PandasStr(FloorHour(o.start_time)) IN
          /\ NetworkTotal(db, o.network_id) = 2 * NetworkTotal(last.first, o.network_id)
          /\ NetworkHourCount(db, o.network_id, h)
                = 2 * NetworkHourCount(last.first, o.network_id, h)
          /\ PropertyHourCount(db, PropertyIdOfEvent(db, last.input, o), h)
                = 2 * PropertyHourCount(last.first, PropertyIdOfEvent(db, last.input, o), h)
          /\ CopiesIn(OutageRow(o), db.outages) = 2

\* C29 (amended): the second run adds the batch once more to what its own
\* purge left of the store: each affected network counter is its value
\* after the first run plus the network's events of the batch, each affected
\* rollup count is the count the purge left plus the events of the batch in
\* that hour, and each raw row of the batch has one more copy than the
\* purge left.
C29_ReplayAddsAgain ==
    Replayed =>
       LET purged == clear_old_data(last.first, last.t)
           stored == StoredEvents(last.input)
       IN \A o \in stored :
             LET h == PandasStr(FloorHour(o.start_time))
                 property_id == PropertyIdOfEvent(db, last.input, o)
             IN /\ NetworkTotal(db, o.network_id)
                      = NetworkTotal(last.first, o.network_id)
                        + Cardinality({x \in stored : x.network_id = o.network_id})
                /\ NetworkHourCount(db, o.network_id, h)
                      = NetworkHourCount(purged, o.network_id, h)
                        + Cardinality({x \in stored :
                              /\ x.network_id = o.network_id
                              /\ FloorHour(x.start_time) = FloorHour(o.start_time)})
                /\ PropertyHourCount(db, property_id, h)
                      = PropertyHourCount(purged, property_id, h)
                        + Cardinality({x \in stored :
                              /\ PropertyIdOfEvent(db, last.input, x) = property_id
                              /\ FloorHour(x.start_time) = FloorHour(o.start_time)})
                /\ CopiesIn(OutageRow(o), db.outages)
                      = CopiesIn(OutageRow(o), purged.outages) + 1

\* a batch with an event of a listed network was processed twice on a store
\* that held nothing for its keys before: the counts are doubled
C29_Witness ==
    /\ Replayed
    /\ \E o \in StoredEvents(last.input) :
          /\ CopiesIn(OutageRow(o), db.outages) = 2
          /\ NetworkTotal(db, o.network_id) = 2
          /\ NetworkHourCount(db, o.network_id, PandasStr(FloorHour(o.start_time))) = 2


\* ------------------------------------------------------------------------
\* Two batch runs at once.  Each run has its own connection; SQLite lets one
\* connection write at a time, so a transaction (from its first INSERT,
\* UPDATE or DELETE to conn.commit()) is one step, and a run that finds the
\* store locked waits.  A SELECT issued while the run has no transaction
\* open is a step of its own: the other run can commit between the SELECT
\* and the statements that use its result.  Both runs are in append mode.
\* ------------------------------------------------------------------------
Racers == {"x", "y"}

\* the removal pass for the network ids the run's SELECT returned
remove_networks_read(d, db_network_ids, eero_details) ==
    LET discovery_network_ids == {r.net : r \in eero_details}
        networks_to_remove == db_network_ids \ discovery_network_ids
        d1 == [d EXCEPT
                 !.network_hourly_outages =
                     {r \in @ : r.network_id \notin networks_to_remove},
                 !.outages = BagFilter(@, LAMBDA r : r.network_id \notin networks_to_remove),
                 !.networks = {n \in @ : n.network_id \notin networks_to_remove}]
        d2 == [d1 EXCEPT !.properties =
                 {[p EXCEPT
                     !.total_networks =
                         Cardinality({n \in d1.networks : n.property_id = p.property_id}),
                     !.total_outages = CountOutagesOfProperty(d1, p.property_id)]
                  : p \in @}]
    IN IF networks_to_remove = {} THEN d
       ELSE [d2 EXCEPT !.properties =
               {p \in @ : p.property_id \in {n.property_id : n \in d2.networks}}]

\* the branch without discovery data for the network ids the run's SELECT
\* returned
process_outages_only_read(d, existing_networks, network_outages, t) ==
    LET valid_outages == {o \in network_outages : o.network_id \in existing_networks}
        d1 == insert_outages(d, valid_outages)
        d2 == add_network_outage_counts(d1, valid_outages)
        d3 == rollups_by_network(d2, valid_outages,
                                 {o.network_id : o \in valid_outages})
    IN IF existing_networks = {} \/ valid_outages = {} THEN d
       ELSE update_property_totals(d3, t)

\* a run about to start
RaceRun(has_discovery, eero_details, network_outages) ==
    [pc |-> <<"clear", 0>>, has_discovery |-> has_discovery,
     eero_details |-> eero_details, network_outages |-> network_outages,
     read |-> {}]

\* where a discovery run goes after the block of the property at position i
AfterProperty(run, i) ==
    LET rest == ListedFrom(run.eero_details, i + 1)
    IN IF rest = {} THEN <<"statistics", 0>>
       ELSE <<"property", CHOOSE j \in rest : \A m \in rest : j <= m>>

Racing == last.op = "race"
RaceDone == Racing /\ \A r \in Racers : last.run[r].pc[1] = "done"

\* two runs are started before either has written
RaceStart(x, y) ==
    /\ last.op \in {"init", "batch"}
    /\ ~(last.op = "batch" /\ last.raised)
    /\ last' = [op |-> "race", start |-> db, t |-> now, run |-> [r \in Racers |->
                   IF r = "x" THEN x ELSE y]]
    /\ UNCHANGED <<db, now, feed, pollers, runs, feed_changes>>

\* clear_old_data and its commit
RaceClear(r) ==
    /\ Racing /\ last.run[r].pc[1] = "clear"
    /\ db' = clear_old_data(db, last.t)
    /\ last' = [last EXCEPT !.run[r].pc =
                   IF last.run[r].has_discovery THEN AfterProperty(last.run[r], 0)
                   ELSE <<"read_existing", 0>>]
    /\ UNCHANGED <<now, feed, pollers, runs, feed_changes>>

\* the block of one property and its commit
RaceProperty(r) ==
    /\ Racing /\ last.run[r].pc[1] = "property"
    /\ LET run == last.run[r] IN
       /\ db' = process_property(db, PropOrder[run.pc[2]], run.eero_details,
                                 run.network_outages, last.t)
       /\ last' = [last EXCEPT !.run[r].pc = AfterProperty(run, run.pc[2])]
    /\ UNCHANGED <<now, feed, pollers, runs, feed_changes>>

\* the equipment statistics and their commit; no ongoing row exists here, so
\* reconcile_ongoing_outages selects nothing
RaceStatistics(r) ==
    /\ Racing /\ last.run[r].pc[1] = "statistics"
    /\ db' = update_equipment_statistics(db)
    /\ last' = [last EXCEPT !.run[r].pc = <<"read_networks", 0>>]
    /\ UNCHANGED <<now, feed, pollers, runs, feed_changes>>

\* SELECT network_id FROM networks, before the removal pass
RaceReadNetworks(r) ==
    /\ Racing /\ last.run[r].pc[1] = "read_networks"
    /\ last' = [last EXCEPT !.run[r].read = {n.network_id : n \in db.networks},
                            !.run[r].pc = <<"removal", 0>>]
    /\ UNCHANGED <<db, now, feed, pollers, runs, feed_changes>>

\* the removal pass and its commit
RaceRemoval(r) ==
    /\ Racing /\ last.run[r].pc[1] = "removal"
    /\ db' = remove_networks_read(db, last.run[r].read, last.run[r].eero_details)
    /\ last' = [last EXCEPT !.run[r].pc = <<"done", 0>>]
    /\ UNCHANGED <<now, feed, pollers, runs, feed_changes>>

\* SELECT network_id FROM networks, at the head of the branch without
\* discovery data
RaceReadExisting(r) ==
    /\ Racing /\ last.run[r].pc[1] = "read_existing"
    /\ last' = [last EXCEPT !.run[r].read = {n.network_id : n \in db.networks},
                            !.run[r].pc = <<"outages_only", 0>>]
    /\ UNCHANGED <<db, now, feed, pollers, runs, feed_changes>>

\* the inserts and updates of the branch without discovery data, and their
\* commit
RaceOutagesOnly(r) ==
    /\ Racing /\ last.run[r].pc[1] = "outages_only"
    /\ db' = process_outages_only_read(db, last.run[r].read,
                                       last.run[r].network_outages, last.t)
    /\ last' = [last EXCEPT !.run[r].pc = <<"done", 0>>]
    /\ UNCHANGED <<now, feed, pollers, runs, feed_changes>>

RaceInputs(t) ==
    {RaceRun(TRUE, S, B) : S \in Snapshots({PropOrder[1]}, EquipPlain), B \in Batches(t, 1)}
    \cup {RaceRun(FALSE, {}, B) : B \in Batches(t, 1)}

NextRace ==
    \/ /\ last.op = "init"
       /\ \E S \in Snapshots({PropOrder[1]}, EquipPlain), B \in Batches(now, 1) :
             BatchRun("append", TRUE, S, B, FALSE)
    \/ \E x, y \in RaceInputs(now) : RaceStart(x, y)
    \/ \E r \in Racers : RaceClear(r)
    \/ \E r \in Racers : RaceProperty(r)
    \/ \E r \in Racers : RaceStatistics(r)
    \/ \E r \in Racers : RaceReadNetworks(r)
    \/ \E r \in Racers : RaceRemoval(r)
    \/ \E r \in Racers : RaceReadExisting(r)
    \/ \E r \in Racers : RaceOutagesOnly(r)

SpecRace == Init /\ [][NextRace]_vars

\* the store after the two runs one after the other
SerialRuns(d, first, second, t) ==
    LET d1 == process_outages_to_db(d, "append", first.has_discovery,
                                    first.eero_details, first.network_outages, t).db
    IN process_outages_to_db(d1, "append", second.has_discovery,
                             second.eero_details, second.network_outages, t).db

PropertyNameOf(d, property_id) ==
    LET rows == {p \in d.properties : p.property_id = property_id}
    IN IF rows = {} THEN "" ELSE (CHOOSE p \in rows : TRUE).property_name

\* the store without the generated property ids: two runs may create
\* properties in either order
StoreView(d) ==
    [properties |-> {[property_name |-> p.property_name,
                      total_networks |-> p.total_networks,
                      total_outages |-> p.total_outages] : p \in d.properties},
     networks |-> {[network_id |-> n.network_id,
                    property_name |-> PropertyNameOf(d, n.property_id),
                    total_outages |-> n.total_outages] : n \in d.networks},
     outages |-> d.outages,
     network_hourly_outages |-> d.network_hourly_outages,
     property_hourly_outages |->
         {[property_name |-> PropertyNameOf(d, r.property_id),
           outage_hour |-> r.outage_hour,
           total_outage_count |-> r.total_outage_count] : r \in d.property_hourly_outages}]

\* C30: when two batch runs that raced have both finished, the store (its
\* rows and every additive counter) is the one that one of the two serial
\* orders of the runs produces.
C30_RaceEqualsSomeSerialOrder ==
    RaceDone =>
       \/ StoreView(db) = StoreView(SerialRuns(last.start, last.run["x"], last.run["y"], last.t))
       \/ StoreView(db) = StoreView(SerialRuns(last.start, last.run["y"], last.run["x"], last.t))


\* ------------------------------------------------------------------------
\* The poller, statement by statement, beside batch runs that all carry
\* discovery data: every batch run that inserts a raw outage row also runs
\* reconcile_ongoing_outages before it exits
\* ------------------------------------------------------------------------
NextReconciled ==
    \/ Tick
    \/ FeedStep
    \/ \E mode \in {"append", "rebuild"}, S \in Snapshots({PropOrder[1]}, EquipPlain),
          B \in Batches(now, 1) :
          BatchRun(mode, TRUE, S, B, FALSE)
    \/ \E p \in Pollers : PollStart(p)
    \/ \E p \in Pollers, ok \in BOOLEAN : PollQuery(p, ok)
    \/ \E p \in Pollers : PollSelect(p)
    \/ \E p \in Pollers : PollWrite(p)

SpecReconciled == Init /\ [][NextReconciled]_vars

\* the keys <<network, instant of the start>> of the raw outage rows with an end
ClosedHistoricalKeys(d) ==
    {<<o.network_id, Instant(o.wan_down_start)>> :
        o \in {x \in DOMAIN d.outages : x.wan_down_end # NULL}}

\* C31: under any interleaving of poll runs and batch runs, in every state
\* in which the store holds a closed historical row for (n, s), inserted by
\* a batch run that completed its reconciliation pass, no open OngoingOutage
\* row for (n, s) exists.
C31_NoOpenRowAfterReconciliation ==
    (last.op = "batch" => ~last.raised) =>
       ClosedHistoricalKeys(db) \cap OpenKeys(db) = {}


\* ------------------------------------------------------------------------
\* Input files with a faulty row
\* ------------------------------------------------------------------------
\* pandas' missing value in the 'Eero Network ID' column
NaN == 0

\* 'Equip Name' values: a well-formed ONT code and one with too few parts
FaultyEquipNames == {<<"ONT", "S1", "01", "10", "13", "25">>, <<"ONT", "S1">>}

\* 'Gateway Speed Down' values: absent, "625.42 Mbps", "fast"
SpeedValues == {<<>>, <<"625.42", "Mbps">>, <<"fast">>}
Numerals == {"625.42"}

\* the number of a speed text, NULL for None
parse_speed_value(speed_str) ==
    IF speed_str = <<>> THEN NULL
    ELSE IF Len(speed_str) = 2 /\ speed_str[1] \in Numerals /\ speed_str[2] = "Mbps"
    THEN <<speed_str[1]>>
    ELSE NULL

\* int(network_row['Eero Network ID']): ValueError for the missing value
int_raises(x) == x = NaN

DiscoveryRow(mdu, net, equip, r7x50, speed) ==
    [mdu |-> mdu, net |-> net, equip |-> equip, r7x50 |-> r7x50, speed |-> speed]

\* the loop `for _, network_row in network_info.iterrows()` reaches the
\* conversions of every row of the property
RowRaises(network_row) ==
    LET network_id == int_raises(network_row.net)
        gateway_speed_down == parse_speed_value(network_row.speed)
        shelf_name == parse_ont_name(network_row.equip)
    IN network_id

\* a discovery run over rows that may be faulty: the properties are
\* processed in sorted order and each block is committed; an exception
\* inside a block leaves the function, main() reports it and exits with
\* status 1, and the block's open transaction is lost
process_rows(d, mode, eero_details, network_outages, t) ==
    LET cleared == IF mode = "rebuild" THEN clear_existing_data(d)
                   ELSE clear_old_data(d, t)
        raising == {i \in 1..Len(PropOrder) :
                       \E r \in eero_details : r.mdu = PropOrder[i] /\ RowRaises(r)}
        first == CHOOSE i \in raising : \A j \in raising : i <= j
        done == {r \in eero_details :
                    \E i \in 1..Len(PropOrder) : i < first /\ r.mdu = PropOrder[i]}
    IN IF raising = {}
       THEN LET run == process_with_discovery(cleared, eero_details, network_outages, t)
            IN [db |-> run.db, raised |-> run.raised]
       ELSE [db |-> process_properties(cleared, 1, done, network_outages, t),
             raised |-> TRUE]

\* the files a run may be given: at most one row of the two files is faulty
PlainRows == {{DiscoveryRow(r.mdu, r.net, r.equip, r.r7x50, <<"625.42", "Mbps">>) : r \in S} :
                 S \in Snapshots(PropNames, EquipPlain)}

FaultyFiles(t) ==
    LET good == Batches(t, 1) IN
    {[fault |-> "none", eero_details |-> S, network_outages |-> B] :
        S \in PlainRows, B \in good}
    \cup {[fault |-> "network_id",
           eero_details |-> S \cup {DiscoveryRow(p, NaN, <<>>, "", <<>>)},
           network_outages |-> B] : S \in PlainRows, B \in good, p \in PropNames}
    \cup UNION {{[fault |-> "equipment",
                  eero_details |-> (S \ {r}) \cup
                      {DiscoveryRow(r.mdu, r.net, <<"ONT", "S1">>, "R1", r.speed)},
                  network_outages |-> B] : r \in S, B \in good} : S \in PlainRows}
    \cup UNION {{[fault |-> "speed",
                  eero_details |-> (S \ {r}) \cup
                      {DiscoveryRow(r.mdu, r.net, r.equip, r.r7x50, <<"fast">>)},
                  network_outages |-> B] : r \in S, B \in good} : S \in PlainRows}
    \cup {[fault |-> "end_before_start", eero_details |-> S,
           network_outages |-> {OutageEvent(n, t, t - 1)}] :
             S \in PlainRows, n \in NetIds}

RowRun(mode, files) ==
    LET run == process_rows(db, mode, files.eero_details, files.network_outages, now)
    IN /\ runs < MaxLoggedRuns
       /\ runs' = runs + 1
       /\ db' = run.db
       /\ last' = [op |-> "rows", mode |-> mode, fault |-> files.fault,
                   eero_details |-> files.eero_details,
                   network_outages |-> files.network_outages,
                   raised |-> run.raised]
       /\ UNCHANGED <<now, feed, pollers, feed_changes>>

NextRows ==
    \/ Tick
    \/ \E mode \in {"append", "rebuild"}, files \in FaultyFiles(now) : RowRun(mode, files)

SpecRows == Init /\ [][NextRows]_vars

\* C32: a run whose files hold one faulty row (a discovery row without a
\* network id, with a malformed equipment code or speed text, or an outage
\* row with end < start) completes, and the other rows are processed: every
\* discovery row with a network id has its Network, and every outage row of
\* a listed network is stored.
C32_FaultyRowDoesNotAbort ==
    last.op = "rows" =>
       /\ ~last.raised
       /\ \A r \in last.eero_details :
             r.net # NaN => \E n \in db.networks : n.network_id = r.net
       /\ \A o \in last.network_outages :
             (\E r \in last.eero_details : r.net = o.network_id) =>
                OutageRow(o) \in DOMAIN db.outages


\* ------------------------------------------------------------------------
\* reconcile_ongoing_outages as a function of the store.  The raw outage
\* rows hold the text the batch writes; the start text of an OngoingOutage
\* row is the string the live feed sent, with 'Z' replaced, so it is in the
\* feed's ISO form or, for a feed that separates date and time by a space,
\* in the form the batch writes.
\* ------------------------------------------------------------------------
StartTexts == {PandasStr(0), ReplaceZ(ApiFormat(0))}
RawStartTexts == {PandasStr(0)}
EndTexts == {NULL, PandasStr(1)}

OngoingRowsFor(keys) ==
    {[ongoing_outage_id |-> k[1], network_id |-> k[1], wan_down_start |-> k[2],
      wan_down_end |-> k[3], reason |-> "isp",
      first_detected |-> IsoFormat(0), last_checked |-> IsoFormat(0)] : k \in keys}

RawRowsFor(keys) ==
    {[network_id |-> k[1], wan_down_start |-> k[2], wan_down_end |-> k[3],
      duration |-> 1, reason |-> "NULL"] : k \in keys}

\* at most one OngoingOutage row per network here, so UNIQUE(network_id,
\* wan_down_start) holds
InitReconcile ==
    /\ \E ongoing \in SUBSET (NetIds \X StartTexts \X EndTexts),
          raw \in SUBSET (NetIds \X RawStartTexts \X EndTexts) :
          /\ \A a, b \in ongoing : a[1] = b[1] => a = b
          /\ db = [EmptyDb EXCEPT
                     !.ongoing_outages = OngoingRowsFor(ongoing),
                     !.outages = SetToBag(RawRowsFor(raw)),
                     !.sqlite_sequence.ongoing_outages = Cardinality(NetIds)]
    /\ now = 1
    /\ feed = [n \in NetIds |-> {}]
    /\ pollers = [p \in Pollers |-> Idle]
    /\ last = [op |-> "init"]
    /\ runs = 0
    /\ feed_changes = 0

\* one call of reconcile_ongoing_outages(cursor) and the caller's commit
ReconcileCall ==
    /\ last.op = "init"
    /\ LET rec == reconcile_ongoing_outages(db) IN
       /\ db' = rec.db
       /\ last' = [op |-> "reconcile", raised |-> rec.raised,
                   reconciled_count |-> rec.reconciled_count, before |-> db]
    /\ UNCHANGED <<now, feed, pollers, runs, feed_changes>>

NextReconcile == ReconcileCall

SpecReconcile == InitReconcile /\ [][NextReconcile]_vars

\* the OngoingOutage rows without an end whose (network_id, wan_down_start)
\* is that of a raw outage row with an end
Matched(d) ==
    {oo \in d.ongoing_outages :
        /\ oo.wan_down_end = NULL
        /\ \E o \in DOMAIN d.outages :
              /\ o.network_id = oo.network_id
              /\ o.wan_down_start = oo.wan_down_start
              /\ o.wan_down_end # NULL}

\* C33: a call of reconcile_ongoing_outages deletes exactly the matched
\* OngoingOutage rows, returns their number, and leaves every other
\* OngoingOutage row and every raw outage row unchanged.
C33_ReconcileDeletesExactlyMatched ==
    last.op = "reconcile" =>
       /\ ~last.raised
       /\ db.ongoing_outages = last.before.ongoing_outages \ Matched(last.before)
       /\ last.reconciled_count = Cardinality(Matched(last.before))
       /\ db.outages = last.before.outages


\* ------------------------------------------------------------------------
\* One outage seen by both writers: the poller stores the feed's start
\* string, the batch stores the CSV's parsed timestamp, for the same network
\* and the same start instant
\* ------------------------------------------------------------------------
MaxKeyInstant == 31

\* a store with property A and its network 1
OneNetworkStore ==
    insert_networks(upsert_property(EmptyDb, PropOrder[1], 1, 0, 0),
                    {[mdu |-> PropOrder[1], net |-> 1, equip |-> <<>>, r7x50 |-> ""]},
                    1, {})

InitKeys ==
    /\ db = OneNetworkStore
    /\ now \in 0..MaxKeyInstant
    /\ feed = [n \in NetIds |-> {}]
    /\ pollers = [p \in Pollers |-> Idle]
    /\ last = [op |-> "keys", join |-> "none", compare |-> "none"]
    /\ runs = 0
    /\ feed_changes = 0

\* the poller stores the open outage the feed reports for network 1
PollerStores ==
    /\ db.ongoing_outages = {}
    /\ db' = store_ongoing_outage(db, 1, ApiFormat(now), NULL, "isp", now).db
    /\ UNCHANGED <<now, feed, pollers, last, runs, feed_changes>>

\* the batch stores the same outage, now ended, from the CSV
BatchStores ==
    /\ db.outages = EmptyBag
    /\ db' = insert_outages(db, {OutageEvent(1, now, now + 1)})
    /\ UNCHANGED <<now, feed, pollers, last, runs, feed_changes>>

BothStored == db.ongoing_outages # {} /\ db.outages # EmptyBag

\* the SELECT of reconcile_ongoing_outages on the two rows
ReconcileJoin ==
    /\ BothStored /\ last.join = "none"
    /\ last' = [last EXCEPT !.join =
                   IF reconciled_rows(db) # {} THEN "same" ELSE "different"]
    /\ UNCHANGED <<db, now, feed, pollers, runs, feed_changes>>

\* the multi-day tracker's comparison of the stored raw row with the feed's
\* outage
TrackerCompare ==
    /\ BothStored /\ last.compare = "none"
    /\ LET row == CHOOSE o \in DOMAIN db.outages : TRUE
           api_outages == {ApiOutage(ApiFormat(now), ApiFormat(now + 1), "isp")}
       IN last' = [last EXCEPT !.compare =
                      IF matching_outage(row.wan_down_start, api_outages) # {}
                      THEN "same" ELSE "different"]
    /\ UNCHANGED <<db, now, feed, pollers, runs, feed_changes>>

NextKeys == PollerStores \/ BatchStores \/ ReconcileJoin \/ TrackerCompare

SpecKeys == InitKeys /\ [][NextKeys]_vars

\* C34: the OngoingOutage row of the poller and the raw outage row of the
\* batch for the same network and start instant are the same key for the
\* join of reconcile_ongoing_outages and for the start comparison of the
\* multi-day tracker.
C34_BothWritersGiveTheSameKey ==
    /\ last.join \in {"none", "same"}
    /\ last.compare \in {"none", "same"}


\* ------------------------------------------------------------------------
\* One batch processed without and with a discovery snapshot that lists the
\* store's networks as the store holds them
\* ------------------------------------------------------------------------
\* the discovery rows that list every stored network under its property
SnapshotOfStore(d) ==
    {[mdu |-> PropertyNameOf(d, n.property_id), net |-> n.network_id,
      equip |-> <<>>, r7x50 |-> ""] : n \in d.networks}

\* the batches of instant t whose outages all belong to stored networks
KnownBatches(d, t) ==
    {B \in Batches(t, MaxBatch) :
        B # {} /\ \A o \in B : o.network_id \in {n.network_id : n \in d.networks}}

\* what the two runs are compared on
OutageView(d) ==
    [outages |-> d.outages,
     network_hourly_outages |-> d.network_hourly_outages,
     property_hourly_outages |-> d.property_hourly_outages,
     network_totals |-> {<<n.network_id, n.total_outages>> : n \in d.networks},
     property_totals |-> {<<p.property_id, p.total_outages>> : p \in d.properties}]

\* C35: for a batch of outages of stored networks, the run without
\* discovery data and the run with a snapshot equal to the stored networks
\* leave the same raw outage rows, rollup counts, network outage counters
\* and property outage totals, from every reachable store.
C35_OutagesOnlyEqualsDiscovery ==
    (\A n \in db.networks : PropertyNameOf(db, n.property_id) # "") =>
        \A B \in KnownBatches(db, now) :
            LET only == process_outages_to_db(db, "append", FALSE, {}, B, now)
                disc == process_outages_to_db(db, "append", TRUE,
                                              SnapshotOfStore(db), B, now)
            IN /\ only.raised = disc.raised
               /\ OutageView(only.db) = OutageView(disc.db)


\* a run of the batch script in rebuild mode on a readable outages file and
\* on no discovery file or one without its required columns
RebuildWithoutSnapshot(l) ==
    /\ l.op = "files" /\ l.mode = "rebuild"
    /\ l.outage_columns /\ l.discovery_file # "ok"

NoOutageData(d) ==
    /\ d.properties = {} /\ d.networks = {}
    /\ d.outages = EmptyBag
    /\ d.network_hourly_outages = {} /\ d.property_hourly_outages = {}

\* C36: a rebuild run without a usable discovery snapshot wipes the store
\* and skips the outage processing: whatever outages the file holds, the
\* run leaves no property, network, raw outage or rollup row, returns 0 and
\* ends without an error.
C36_RebuildWithoutSnapshotLeavesNothing ==
    [][(runs' = runs + 1 /\ RebuildWithoutSnapshot(last'))
          => /\ ~last'.exited /\ ~last'.raised
             /\ NoOutageData(db')
             /\ \A B \in Batches(now, 1) :
                   process_outages_to_db(db, "rebuild", FALSE, {}, B, now).total = 0]_vars

\* such a run has emptied a store in which an earlier run had created
\* properties
C36_Witness ==
    /\ RebuildWithoutSnapshot(last) /\ last.discovery_file = "missing_columns"
    /\ ~last.exited
    /\ db.sqlite_sequence.properties > 0
    /\ NoOutageData(db)


\* C37: after every completed run with discovery data, each network row
\* carries the property under which the run's snapshot lists the network,
\* and each property's total_networks is the number of network rows that
\* carry its property_id, also when the snapshot lists a network under
\* another property than an earlier snapshot did.
C37_NetworksFollowSnapshot ==
    (BatchCompleted /\ last.has_discovery /\ last.log # <<>>) =>
        /\ \A r \in last.log[1].eero_details : \A n \in db.networks :
              n.network_id = r.net => PropertyNameOf(db, n.property_id) = r.mdu
        /\ \A p \in db.properties :
              p.total_networks =
                  Cardinality({n \in db.networks : n.property_id = p.property_id})


\* a step that is a run of the multi-day tracker
MultidayStep == runs' = runs + 1 /\ last'.op = "multiday"

\* the feed outages of the row's network, when the run got a response for
\* it, that start at the row's instant and carry an end that is not the
\* stored one
EndCorrections(r, api, failed) ==
    {o \in (IF r.network_id \in failed THEN {} ELSE api[r.network_id]) :
        /\ o.start # NULL /\ o.end # NULL
        /\ Instant(ReplaceZ(o.start)) = Instant(r.wan_down_start)
        /\ ReplaceZ(o.end) # r.wan_down_end}

\* the rows the run may leave in place of row r
AllowedImages(r, api, failed) ==
    {r} \cup UNION {{[r EXCEPT !.wan_down_end = ReplaceZ(o.end), !.reason = x] :
                        x \in {r.reason, o.reason}} :
                     o \in EndCorrections(r, api, failed)}

WriteStepOf(p) == pollers[p].pc = "write" /\ pollers'[p] # pollers[p]

\* C39: when the SELECT and the INSERT of two store_ongoing_outage calls for
\* one (network_id, start) interleave, each call completes without raising
\* and the table holds exactly one row for the key, so a concurrent writer
\* never ends a poll run.
C39_InterleavedWritersBothComplete ==
    [][\A p \in Pollers :
          WriteStepOf(p) =>
             /\ ~last'.raised
             /\ pollers'[p] = NextPosition(pollers[p].networks, pollers[p].network_id,
                                           pollers[p].api_outages)
             /\ Cardinality({r \in db'.ongoing_outages :
                    /\ r.network_id = pollers[p].network_id
                    /\ r.wan_down_start = ReplaceZ(pollers[p].outage.start)}) = 1]_vars

====
